---- MODULE Spec2Model ----
(***************************************************************************)
(* Model of the demand-sensing metrics store (db_manager.py, db_schema.py) *)
(* and of the collection runs that write through it (tiktok_scraper.py,    *)
(* instagram_scraper.py, allegro_scraper.py).                              *)
(*                                                                         *)
(* Python's Optional[T] is modelled as a sequence: <<>> is None and <<v>>  *)
(* is the value v.                                                         *)
(***************************************************************************)
EXTENDS Integers, Sequences, FiniteSets, TLC

\* ------------------------------------------------------------------ bounds
MaxDate == 2        \* dates are 1..MaxDate
MaxVal == 1         \* measured values are 1..MaxVal, or None
MaxCalls == 2       \* direct upsert calls started in one behaviour
MaxRuns == 1        \* collection runs started in one behaviour
MaxEntities == 2    \* entities of a configured list that a run visits
MaxLen == 3         \* characters of a text handed to a normalizer
MaxFragments == 2   \* listing fragments of a result page

\* ------------------------------------------------------------ Optional[T]
None == <<>>
Some(v) == <<v>>
Val(o) == o[1]

\* Python truthiness of an Optional[int]: None and 0 are falsy
Truthy(o) == o /= None /\ Val(o) /= 0

\* ---------------------------------------------------------- configuration
TIKTOK_HASHTAGS ==
    << "desksetup", "homeoffice", "desksetupinspo", "studiosetup",
       "workspaceaesthetic", "gadgetsdesk" >>

INSTAGRAM_HASHTAGS == << "desksetup", "workspaceinspo", "homeofficeideas" >>

ALLEGRO_KEYWORDS ==
    << "monitor light bar", "rgb desk light", "headphone stand", "desk shelf",
       "cable organizer", "magnetic phone stand", "LED clock", "desk mat" >>

\* ---------------------------------------------------------------- seed data
SEED_PLATFORMS == << <<1, "TikTok">>, <<2, "Instagram">>, <<3, "Allegro">> >>

SEED_HASHTAGS ==
    << <<"desksetup", "desk_setup">>, <<"homeoffice", "desk_setup">>,
       <<"desksetupinspo", "desk_setup">>, <<"studiosetup", "desk_setup">>,
       <<"workspaceaesthetic", "desk_setup">>, <<"gadgetsdesk", "desk_setup">>,
       <<"workspaceinspo", "desk_setup">>, <<"homeofficeideas", "desk_setup">> >>

SEED_PRODUCTS ==
    << <<"monitor light bar", "desk_setup", "PL">>,
       <<"rgb desk light", "desk_setup", "PL">>,
       <<"headphone stand", "desk_setup", "PL">>,
       <<"desk shelf", "desk_setup", "PL">>,
       <<"cable organizer", "desk_setup", "PL">>,
       <<"magnetic phone stand", "desk_setup", "PL">>,
       <<"LED clock", "desk_setup", "PL">>,
       <<"desk mat", "desk_setup", "PL">> >>

\* ------------------------------------------------------------ input domains
Procs == {1, 2}
Dates == 1..MaxDate
OptVals == {None} \cup {Some(v) : v \in 1..MaxVal}
SeededPlatformNames == {"TikTok"}
SeededHashtagNames == {"desksetup"}
SeededKeywordNames == {"desk mat"}
PlatformNames == SeededPlatformNames \cup {"UnknownPlatform"}
HashtagNames == SeededHashtagNames \cup {"nosuchtag"}
KeywordNames == SeededKeywordNames \cup {"no such product"}

VARIABLES
    platforms,            \* table platforms: rows [platform_id, name]
    hashtags,             \* table hashtags: rows [hashtag_id, tag, category]
    products,             \* table products: rows [product_id, keyword, category, market]
    social_metrics,       \* table social_metrics
    marketplace_metrics,  \* table marketplace_metrics
    sequence,             \* sqlite_sequence: last AUTOINCREMENT rowid per table
    clock,                \* CURRENT_TIMESTAMP; it moves on after every commit
    write_lock,           \* process holding the database write lock, 0 if none
    pc,                   \* per process: position inside an upsert call
    args,                 \* per process: arguments of the call in progress, else None
    platform_id,          \* per process: local of insert_social_metric
    hashtag_id,           \* per process: local of insert_social_metric
    product_id,           \* per process: local of insert_marketplace_metric
    conn,                 \* per process: uncommitted tables of the open write transaction
    result,               \* per process: outcome of the current/last call
    fault,                \* per process: where sqlite3 raised in the current/last call
    calls,                \* number of direct upsert calls started
    run_status,           \* per process: "none", "running", "returned" or "raised"
    run_kind,             \* per process: collector of the current/last run
    run_today,            \* per process: local today of the run
    run_save,             \* per process: parameter save_to_db of the run
    run_idx,              \* per process: index of the next entity of the run's loop
    run_results,          \* per process: local results, one entry per visited entity
    runs,                 \* number of collection runs started
    written_social,       \* history: per social key, the values of the last committed
                          \*   upsert and the values it replaced
    written_marketplace,  \* history: the same per marketplace key
    overlapped,           \* history: per process, whether its current/last call ran
                          \*   while a call of another process was in progress
    html,                 \* page content fetched by the current run, or handed to
                          \*   an extractor; None if none
    data,                 \* what the extractor returned for html
    text,                 \* string handed to a normalizer
    parsed,               \* what the normalizer did with text
    query,                \* arguments of the last query
    fetched,              \* list the last query returned
    stage,                \* position of run_all: "none" outside a batch, the
                          \*   collector to run or running, or "done"
    ok,                   \* locals tiktok_ok, instagram_ok, allegro_ok of run_all
    batch_results,        \* self.results of the DailyBatchRunner
    started               \* history: the collectors run_all has called, in order

dims == <<platforms, hashtags, products>>
facts == <<social_metrics, marketplace_metrics>>
store == <<platforms, hashtags, products, social_metrics, marketplace_metrics, sequence>>
locals == <<platform_id, hashtag_id, product_id>>
history == <<written_social, written_marketplace>>
frame == <<args, platform_id, hashtag_id, product_id>>
run == <<run_status, run_kind, run_today, run_save, run_idx, run_results, runs>>
pure == <<data, text, parsed, query, fetched>>
batch == <<stage, ok, batch_results, started>>
vars == <<platforms, hashtags, products, social_metrics, marketplace_metrics,
          sequence, clock, write_lock, pc, args, platform_id, hashtag_id,
          product_id, conn, result, fault, calls, run_status, run_kind,
          run_today, run_save, run_idx, run_results, runs, written_social,
          written_marketplace, overlapped, html, data, text, parsed, query,
          fetched, stage, ok, batch_results, started>>

\* ------------------------------------------------------- dimension lookups
\* SELECT platform_id FROM platforms WHERE name = ? ; fetchone()
get_platform_id(tbl, platform_name) ==
    IF \E r \in tbl : r.name = platform_name
    THEN Some((CHOOSE r \in tbl : r.name = platform_name).platform_id)
    ELSE None

\* variant: a miss yields the sentinel -1 instead of None
get_hashtag_id_Sentinel(tbl, tag) ==
    IF \E r \in tbl : r.tag = tag
    THEN Some((CHOOSE r \in tbl : r.tag = tag).hashtag_id)
    ELSE Some(-1)

\* SELECT hashtag_id FROM hashtags WHERE tag = ? ; fetchone()
get_hashtag_id(tbl, tag) ==
    IF \E r \in tbl : r.tag = tag
    THEN Some((CHOOSE r \in tbl : r.tag = tag).hashtag_id)
    ELSE None

\* SELECT product_id FROM products WHERE keyword = ? ; fetchone()
get_product_id(tbl, keyword) ==
    IF \E r \in tbl : r.keyword = keyword
    THEN Some((CHOOSE r \in tbl : r.keyword = keyword).product_id)
    ELSE None

\* "if not platform_id or not hashtag_id: return False" passes
SocialResolved(pid, hid) == Truthy(pid) /\ Truthy(hid)

\* "if not product_id: return False" passes
ProductResolved(prid) == Truthy(prid)

\* ------------------------------------------------------------------ seeding
\* INSERT OR IGNORE INTO platforms (platform_id, name): the row is dropped
\* when it conflicts with the primary key or with UNIQUE(name)
InsertOrIgnorePlatform(tbl, row) ==
    IF \E r \in tbl : r.platform_id = row[1] \/ r.name = row[2]
    THEN tbl
    ELSE tbl \cup {[platform_id |-> row[1], name |-> row[2]]}

\* variant: INSERT OR REPLACE, which deletes the row holding the tag and
\* inserts the new row under the next AUTOINCREMENT id
InsertOrReplaceHashtag(st, row) ==
    [tbl |-> {r \in st.tbl : r.tag /= row[1]} \cup
             {[hashtag_id |-> st.seq + 1, tag |-> row[1], category |-> row[2]]},
     seq |-> st.seq + 1]

\* INSERT OR IGNORE INTO hashtags (tag, category): st = [tbl, seq]; a new row
\* takes the next AUTOINCREMENT id, a row whose tag exists is dropped
InsertOrIgnoreHashtag(st, row) ==
    IF \E r \in st.tbl : r.tag = row[1]
    THEN st
    ELSE [tbl |-> st.tbl \cup {[hashtag_id |-> st.seq + 1, tag |-> row[1],
                                category |-> row[2]]},
          seq |-> st.seq + 1]

\* INSERT OR IGNORE INTO products (keyword, category, market)
InsertOrIgnoreProduct(st, row) ==
    IF \E r \in st.tbl : r.keyword = row[1]
    THEN st
    ELSE [tbl |-> st.tbl \cup {[product_id |-> st.seq + 1, keyword |-> row[1],
                                category |-> row[2], market |-> row[3]]},
          seq |-> st.seq + 1]

\* cursor.executemany over the seed lists, in list order
RECURSIVE SeedPlatforms(_, _)
SeedPlatforms(tbl, rows) ==
    IF rows = <<>> THEN tbl
    ELSE SeedPlatforms(InsertOrIgnorePlatform(tbl, Head(rows)), Tail(rows))

RECURSIVE SeedHashtags(_, _)
SeedHashtags(st, rows) ==
    IF rows = <<>> THEN st
    ELSE SeedHashtags(InsertOrIgnoreHashtag(st, Head(rows)), Tail(rows))

RECURSIVE SeedProducts(_, _)
SeedProducts(st, rows) ==
    IF rows = <<>> THEN st
    ELSE SeedProducts(InsertOrIgnoreProduct(st, Head(rows)), Tail(rows))

\* variant: DROP TABLE followed by CREATE TABLE
CreateTable_DropFirst(tbl) == {}

\* CREATE TABLE IF NOT EXISTS: an existing table keeps its rows
CreateTableIfNotExists(tbl) == tbl

\* ------------------------------------------------------------------ upserts
SocialKey(r) == <<r.date, r.platform_id, r.hashtag_id>>
MarketplaceKey(r) == <<r.date, r.product_id>>

\* variant: plain INSERT into a table without the UNIQUE constraint
UpsertSocial_AlwaysInsert(st, date_val, pid, hid, views, videos, likes, now) ==
    [tbl |-> st.tbl \cup
             {[metric_id |-> st.seq + 1, date |-> date_val,
               platform_id |-> pid, hashtag_id |-> hid, views |-> views,
               videos |-> videos, likes |-> likes, scraped_at |-> now]},
     seq |-> st.seq + 1]

\* variant: DO UPDATE SET views = COALESCE(excluded.views, views), ...
UpsertSocial_Patch(st, date_val, pid, hid, views, videos, likes, now) ==
    IF \E r \in st.tbl : SocialKey(r) = <<date_val, pid, hid>>
    THEN [tbl |-> {IF SocialKey(r) = <<date_val, pid, hid>>
                   THEN [r EXCEPT
                           !.views = IF views = None THEN @ ELSE views,
                           !.videos = IF videos = None THEN @ ELSE videos,
                           !.likes = IF likes = None THEN @ ELSE likes,
                           !.scraped_at = now]
                   ELSE r : r \in st.tbl},
          seq |-> st.seq]
    ELSE [tbl |-> st.tbl \cup
                  {[metric_id |-> st.seq + 1, date |-> date_val,
                    platform_id |-> pid, hashtag_id |-> hid, views |-> views,
                    videos |-> videos, likes |-> likes, scraped_at |-> now]},
          seq |-> st.seq + 1]

\* SQL addition: NULL when an operand is NULL
AddNullable(a, b) == IF a = None \/ b = None THEN None ELSE Some(Val(a) + Val(b))

\* variant: DO UPDATE SET views = views + excluded.views, ...
UpsertSocial_Accumulate(st, date_val, pid, hid, views, videos, likes, now) ==
    IF \E r \in st.tbl : SocialKey(r) = <<date_val, pid, hid>>
    THEN [tbl |-> {IF SocialKey(r) = <<date_val, pid, hid>>
                   THEN [r EXCEPT !.views = AddNullable(@, views),
                                  !.videos = AddNullable(@, videos),
                                  !.likes = AddNullable(@, likes),
                                  !.scraped_at = now]
                   ELSE r : r \in st.tbl},
          seq |-> st.seq]
    ELSE [tbl |-> st.tbl \cup
                  {[metric_id |-> st.seq + 1, date |-> date_val,
                    platform_id |-> pid, hashtag_id |-> hid, views |-> views,
                    videos |-> videos, likes |-> likes, scraped_at |-> now]},
          seq |-> st.seq + 1]

\* INSERT INTO social_metrics ... ON CONFLICT(date, platform_id, hashtag_id)
\* DO UPDATE SET views, videos, likes = excluded.*, scraped_at = CURRENT_TIMESTAMP
\* st = [tbl, seq]
UpsertSocial(st, date_val, pid, hid, views, videos, likes, now) ==
    IF \E r \in st.tbl : SocialKey(r) = <<date_val, pid, hid>>
    THEN [tbl |-> {IF SocialKey(r) = <<date_val, pid, hid>>
                   THEN [r EXCEPT !.views = views, !.videos = videos,
                                  !.likes = likes, !.scraped_at = now]
                   ELSE r : r \in st.tbl},
          seq |-> st.seq]
    ELSE [tbl |-> st.tbl \cup
                  {[metric_id |-> st.seq + 1, date |-> date_val,
                    platform_id |-> pid, hashtag_id |-> hid, views |-> views,
                    videos |-> videos, likes |-> likes, scraped_at |-> now]},
          seq |-> st.seq + 1]

\* INSERT INTO marketplace_metrics ... ON CONFLICT(date, product_id) DO UPDATE
UpsertMarketplace(st, date_val, prid, avg_price, offer_count, sales_proxy, now) ==
    IF \E r \in st.tbl : MarketplaceKey(r) = <<date_val, prid>>
    THEN [tbl |-> {IF MarketplaceKey(r) = <<date_val, prid>>
                   THEN [r EXCEPT !.avg_price = avg_price,
                                  !.offer_count = offer_count,
                                  !.sales_proxy = sales_proxy,
                                  !.scraped_at = now]
                   ELSE r : r \in st.tbl},
          seq |-> st.seq]
    ELSE [tbl |-> st.tbl \cup
                  {[metric_id |-> st.seq + 1, date |-> date_val,
                    product_id |-> prid, avg_price |-> avg_price,
                    offer_count |-> offer_count, sales_proxy |-> sales_proxy,
                    scraped_at |-> now]},
          seq |-> st.seq + 1]

\* ------------------------------------------------------------ transactions
\* the committed fact tables, as one value
Committed ==
    [social_metrics |-> social_metrics,
     marketplace_metrics |-> marketplace_metrics,
     sequence |-> sequence]

\* conn.commit(): the transaction's tables become the committed ones
CommitTx(committed, pending) == pending

\* variant: the failure path commits instead of rolling back
RollbackTx_KeepsWrites(committed, pending) == pending

\* conn.rollback(): the transaction's tables are discarded
RollbackTx(committed, pending) == committed

\* variant: a storage engine without a write lock
LockAvailable_Always(lock, p) == TRUE

\* a write statement waits until no other connection holds the write lock
LockAvailable(lock, p) == lock = 0

\* history: the values of the last committed upsert, per key
RecordSocial(w, key, vals) ==
    LET old == {x \in w : <<x.date, x.platform_id, x.hashtag_id>> = key} IN
    (w \ old) \cup
    {[date |-> key[1], platform_id |-> key[2], hashtag_id |-> key[3],
      views |-> vals[1], videos |-> vals[2], likes |-> vals[3],
      prev |-> IF old = {} THEN None
               ELSE LET x == CHOOSE x \in old : TRUE
                    IN Some(<<x.views, x.videos, x.likes>>)]}

RecordMarketplace(w, key, vals) ==
    LET old == {x \in w : <<x.date, x.product_id>> = key} IN
    (w \ old) \cup
    {[date |-> key[1], product_id |-> key[2], avg_price |-> vals[1],
      offer_count |-> vals[2], sales_proxy |-> vals[3],
      prev |-> IF old = {} THEN None
               ELSE LET x == CHOOSE x \in old : TRUE
                    IN Some(<<x.avg_price, x.offer_count, x.sales_proxy>>)]}

\* ---------------------------------------------------------------- initial
\* no call and no run is in progress
InitProcs ==
    /\ write_lock = 0
    /\ pc = [p \in Procs |-> "idle"]
    /\ args = [p \in Procs |-> None]
    /\ platform_id = [p \in Procs |-> None]
    /\ hashtag_id = [p \in Procs |-> None]
    /\ product_id = [p \in Procs |-> None]
    /\ conn = [p \in Procs |-> None]
    /\ result = [p \in Procs |-> "none"]
    /\ fault = [p \in Procs |-> "none"]
    /\ calls = 0
    /\ run_status = [p \in Procs |-> "none"]
    /\ run_kind = [p \in Procs |-> "none"]
    /\ run_today = [p \in Procs |-> 1]
    /\ run_save = [p \in Procs |-> TRUE]
    /\ run_idx = [p \in Procs |-> 1]
    /\ run_results = [p \in Procs |-> <<>>]
    /\ runs = 0
    /\ overlapped = [p \in Procs |-> FALSE]
    /\ html = None
    /\ data = None
    /\ text = None
    /\ parsed = None
    /\ query = None
    /\ fetched = None
    /\ stage = "none"
    /\ ok = [k \in {"TikTok", "Instagram", "Allegro"} |-> None]
    /\ batch_results = [start_time |-> None, tiktok |-> None,
                        instagram |-> None, allegro |-> None, errors |-> <<>>,
                        overall_success |-> None]
    /\ started = <<>>

\* the database file with its tables created and nothing inserted yet
Init ==
    /\ platforms = {}
    /\ hashtags = {}
    /\ products = {}
    /\ social_metrics = {}
    /\ marketplace_metrics = {}
    /\ sequence = [hashtags |-> 0, products |-> 0, social_metrics |-> 0,
                   marketplace_metrics |-> 0]
    /\ clock = 1
    /\ written_social = {}
    /\ written_marketplace = {}
    /\ InitProcs


\* the dimension tables as initialize_database leaves an empty database
SeededPlatforms == SeedPlatforms({}, SEED_PLATFORMS)
SeededHashtags == SeedHashtags([tbl |-> {}, seq |-> 0], SEED_HASHTAGS)
SeededProducts == SeedProducts([tbl |-> {}, seq |-> 0], SEED_PRODUCTS)

\* the database after initialize_database, before any upsert
InitSeeded ==
    /\ platforms = SeededPlatforms
    /\ hashtags = SeededHashtags.tbl
    /\ products = SeededProducts.tbl
    /\ social_metrics = {}
    /\ marketplace_metrics = {}
    /\ sequence = [hashtags |-> SeededHashtags.seq,
                   products |-> SeededProducts.seq, social_metrics |-> 0,
                   marketplace_metrics |-> 0]
    /\ clock = 1
    /\ written_social = {}
    /\ written_marketplace = {}
    /\ InitProcs

\* ------------------------------------------------------ initialize_database
initialize_database ==
    /\ UNCHANGED <<html, pure, batch>>
    /\ write_lock = 0
    /\ platforms' = SeedPlatforms(CreateTableIfNotExists(platforms), SEED_PLATFORMS)
    /\ LET h == SeedHashtags([tbl |-> CreateTableIfNotExists(hashtags),
                              seq |-> sequence.hashtags], SEED_HASHTAGS)
           pr == SeedProducts([tbl |-> CreateTableIfNotExists(products),
                               seq |-> sequence.products], SEED_PRODUCTS)
       IN /\ hashtags' = h.tbl
          /\ products' = pr.tbl
          /\ sequence' = [sequence EXCEPT !.hashtags = h.seq, !.products = pr.seq]
    /\ social_metrics' = CreateTableIfNotExists(social_metrics)
    /\ marketplace_metrics' = CreateTableIfNotExists(marketplace_metrics)
    /\ UNCHANGED <<clock, write_lock, pc, args, locals, conn, result, fault,
                   calls, run, history, overlapped>>

\* ------------------------------------------------------------- upsert calls
\* entry of insert_social_metric / insert_marketplace_metric with arguments a
BeginCall(p, a) ==
    /\ args' = [args EXCEPT ![p] = Some(a)]
    /\ pc' = [pc EXCEPT ![p] = IF a.op = "social" THEN "get_platform_id"
                                                  ELSE "get_product_id"]
    /\ result' = [result EXCEPT ![p] = "none"]
    /\ fault' = [fault EXCEPT ![p] = "none"]
    /\ platform_id' = [platform_id EXCEPT ![p] = None]
    /\ hashtag_id' = [hashtag_id EXCEPT ![p] = None]
    /\ product_id' = [product_id EXCEPT ![p] = None]
    /\ overlapped' = [q \in Procs |->
                         IF q = p THEN \E r \in Procs \ {p} : pc[r] /= "idle"
                         ELSE overlapped[q] \/ pc[q] /= "idle"]

\* variant: "return successful == total"
CollectorOk_EveryEntity(status, results) ==
    status = "returned" /\ \A i \in 1..Len(results) : results[i] /= None

\* what run_tiktok / run_instagram / run_allegro returns: "successful > 0"
\* when the scrape call returned results, False when it raised
CollectorOk(status, results) ==
    status = "returned" /\ \E i \in 1..Len(results) : results[i] /= None

\* the entry of self.results for a collector whose scrape call returned
Summary(results) ==
    [successful |-> Cardinality({i \in 1..Len(results) : results[i] /= None}),
     total |-> Len(results)]

\* the collector run_all calls after kind; "done" after the last one
StageAfter(kind) ==
    IF kind = "TikTok" THEN "Instagram"
    ELSE IF kind = "Instagram" THEN "Allegro"
    ELSE "done"

\* the scrape call of process p returns or raises into run_tiktok /
\* run_instagram / run_allegro: the collector's entry or error is recorded,
\* its value goes to the local of run_all, and after run_allegro run_all
\* sets overall_success and returns
ReturnToBatch(p, status) ==
    LET kind == run_kind[p]
        oks == [ok EXCEPT ![kind] = Some(CollectorOk(status, run_results[p]))]
        r1 == IF status = "returned"
              THEN LET entry == Some(Summary(run_results[p])) IN
                   IF kind = "TikTok" THEN [batch_results EXCEPT !.tiktok = entry]
                   ELSE IF kind = "Instagram"
                   THEN [batch_results EXCEPT !.instagram = entry]
                   ELSE [batch_results EXCEPT !.allegro = entry]
              ELSE [batch_results EXCEPT !.errors = Append(@, kind)]
    IN /\ ok' = oks
       /\ stage' = StageAfter(kind)
       /\ batch_results' =
             IF StageAfter(kind) = "done"
             THEN [r1 EXCEPT !.overall_success =
                                Some(\A k \in DOMAIN oks : oks[k] = Some(TRUE))]
             ELSE r1
       /\ UNCHANGED started

\* the run of process p returns or raises: its locals are gone
EndRun(p, status) ==
    /\ IF stage = "none" THEN UNCHANGED batch ELSE ReturnToBatch(p, status)
    /\ run_status' = [run_status EXCEPT ![p] = status]
    /\ run_kind' = [run_kind EXCEPT ![p] = "none"]
    /\ run_today' = [run_today EXCEPT ![p] = 1]
    /\ run_save' = [run_save EXCEPT ![p] = TRUE]
    /\ run_idx' = [run_idx EXCEPT ![p] = 1]
    /\ run_results' = [run_results EXCEPT ![p] = <<>>]
    /\ html' = None

\* the call of process p returns or raises: its locals are gone
EndCall(p) ==
    /\ pc' = [pc EXCEPT ![p] = "idle"]
    /\ args' = [args EXCEPT ![p] = None]
    /\ platform_id' = [platform_id EXCEPT ![p] = None]
    /\ hashtag_id' = [hashtag_id EXCEPT ![p] = None]
    /\ product_id' = [product_id EXCEPT ![p] = None]

SocialArgs(d, pn, h, v, vd, l) ==
    [op |-> "social", date_val |-> d, platform_name |-> pn, hashtag |-> h,
     views |-> v, videos |-> vd, likes |-> l]

MarketplaceArgs(d, k, ap, oc, sp) ==
    [op |-> "marketplace", date_val |-> d, keyword |-> k, avg_price |-> ap,
     offer_count |-> oc, sales_proxy |-> sp]

\* a caller outside a collection run calls insert_social_metric
CallInsertSocial(p, platform_names, hashtag_names) ==
    /\ UNCHANGED <<html, pure, batch>>
    /\ pc[p] = "idle" /\ run_status[p] /= "running" /\ calls < MaxCalls
    /\ \E d \in Dates, pn \in platform_names, h \in hashtag_names,
          v \in OptVals, vd \in OptVals, l \in OptVals :
          BeginCall(p, SocialArgs(d, pn, h, v, vd, l))
    /\ calls' = calls + 1
    /\ UNCHANGED <<store, clock, write_lock, conn, run>>
    /\ UNCHANGED history

\* a caller outside a collection run calls insert_marketplace_metric
CallInsertMarketplace(p, keyword_names) ==
    /\ UNCHANGED <<html, pure, batch>>
    /\ pc[p] = "idle" /\ run_status[p] /= "running" /\ calls < MaxCalls
    /\ \E d \in Dates, k \in keyword_names,
          ap \in OptVals, oc \in OptVals, sp \in OptVals :
          BeginCall(p, MarketplaceArgs(d, k, ap, oc, sp))
    /\ calls' = calls + 1
    /\ UNCHANGED <<store, clock, write_lock, conn, run>>
    /\ UNCHANGED history

\* platform_id = self.get_platform_id(platform_name)
GetPlatformId(p) ==
    /\ UNCHANGED <<html, pure, batch>>
    /\ pc[p] = "get_platform_id"
    /\ platform_id' = [platform_id EXCEPT
                          ![p] = get_platform_id(platforms, Val(args[p]).platform_name)]
    /\ pc' = [pc EXCEPT ![p] = "get_hashtag_id"]
    /\ UNCHANGED <<store, clock, write_lock, args, hashtag_id, product_id,
                   conn, result, fault, calls, run, history, overlapped>>

\* hashtag_id = self.get_hashtag_id(hashtag)
GetHashtagId(p) ==
    /\ UNCHANGED <<html, pure, batch>>
    /\ pc[p] = "get_hashtag_id"
    /\ hashtag_id' = [hashtag_id EXCEPT
                         ![p] = get_hashtag_id(hashtags, Val(args[p]).hashtag)]
    /\ pc' = [pc EXCEPT ![p] = "check"]
    /\ UNCHANGED <<store, clock, write_lock, args, platform_id, product_id,
                   conn, result, fault, calls, run, history, overlapped>>

\* product_id = self.get_product_id(keyword)
GetProductId(p) ==
    /\ UNCHANGED <<html, pure, batch>>
    /\ pc[p] = "get_product_id"
    /\ product_id' = [product_id EXCEPT
                         ![p] = get_product_id(products, Val(args[p]).keyword)]
    /\ pc' = [pc EXCEPT ![p] = "check"]
    /\ UNCHANGED <<store, clock, write_lock, args, platform_id, hashtag_id,
                   conn, result, fault, calls, run, history, overlapped>>

\* sqlite3 raises inside a lookup (connect, SELECT or commit of get_connection):
\* the lookups are outside the try of the upsert, so the exception leaves the
\* call, and leaves the loop of a collection run that made the call
LookupFault(p) ==
    /\ UNCHANGED pure
    /\ pc[p] \in {"get_platform_id", "get_hashtag_id", "get_product_id"}
    /\ EndCall(p)
    /\ result' = [result EXCEPT ![p] = "StorageFault"]
    /\ fault' = [fault EXCEPT ![p] = "lookup"]
    /\ IF run_status[p] = "running"
       THEN EndRun(p, "raised")
       ELSE UNCHANGED <<run_status, run_kind, run_today, run_save, run_idx,
                        run_results, html, batch>>
    /\ UNCHANGED <<store, clock, write_lock, conn, calls, runs, history,
                   overlapped>>

Resolved(p) ==
    IF Val(args[p]).op = "social"
    THEN SocialResolved(platform_id[p], hashtag_id[p])
    ELSE ProductResolved(product_id[p])

\* "logger.error(Invalid ...); return False"
RejectUnresolved(p) ==
    /\ UNCHANGED <<html, pure, batch>>
    /\ pc[p] = "check"
    /\ ~Resolved(p)
    /\ EndCall(p)
    /\ result' = [result EXCEPT ![p] = "False"]
    /\ UNCHANGED <<store, clock, write_lock, conn, fault, calls, run, history,
                   overlapped>>

\* the tables as the upsert statement of process p leaves them
Pending(p) ==
    LET a == Val(args[p]) IN
    IF a.op = "social"
    THEN LET u == UpsertSocial([tbl |-> social_metrics,
                                seq |-> sequence.social_metrics],
                               a.date_val, Val(platform_id[p]),
                               Val(hashtag_id[p]), a.views, a.videos, a.likes,
                               clock)
         IN [social_metrics |-> u.tbl,
             marketplace_metrics |-> marketplace_metrics,
             sequence |-> [sequence EXCEPT !.social_metrics = u.seq]]
    ELSE LET u == UpsertMarketplace([tbl |-> marketplace_metrics,
                                     seq |-> sequence.marketplace_metrics],
                                    a.date_val, Val(product_id[p]),
                                    a.avg_price, a.offer_count, a.sales_proxy,
                                    clock)
         IN [social_metrics |-> social_metrics,
             marketplace_metrics |-> u.tbl,
             sequence |-> [sequence EXCEPT !.marketplace_metrics = u.seq]]

\* "with self.get_connection() as conn: conn.execute(INSERT ... ON CONFLICT ...)"
Execute(p) ==
    /\ UNCHANGED <<html, pure, batch>>
    /\ pc[p] = "check"
    /\ Resolved(p)
    /\ LockAvailable(write_lock, p)
    /\ write_lock' = p
    /\ conn' = [conn EXCEPT ![p] = Some(Pending(p))]
    /\ pc' = [pc EXCEPT ![p] = "commit"]
    /\ UNCHANGED <<store, clock, args, locals, result, fault, calls, run,
                   history, overlapped>>

\* sqlite3.connect or conn.execute raises: rollback, re-raise, and the
\* "except Exception" of the upsert returns False
ExecuteFault(p) ==
    /\ UNCHANGED <<html, pure, batch>>
    /\ pc[p] = "check"
    /\ Resolved(p)
    /\ EndCall(p)
    /\ result' = [result EXCEPT ![p] = "False"]
    /\ fault' = [fault EXCEPT ![p] = "execute"]
    /\ UNCHANGED <<store, clock, write_lock, conn, calls, run, history,
                   overlapped>>

\* the tables after the transaction of p ends with t
EndTx(p, t) ==
    /\ social_metrics' = t.social_metrics
    /\ marketplace_metrics' = t.marketplace_metrics
    /\ sequence' = t.sequence
    /\ conn' = [conn EXCEPT ![p] = None]
    /\ write_lock' = 0
    /\ EndCall(p)

\* conn.commit() succeeds, conn.close(), "return True"
Commit(p) ==
    /\ UNCHANGED <<html, pure, batch>>
    /\ pc[p] = "commit"
    /\ EndTx(p, CommitTx(Committed, Val(conn[p])))
    /\ result' = [result EXCEPT ![p] = "True"]
    /\ LET a == Val(args[p]) IN
       IF a.op = "social"
       THEN /\ written_social' =
                  RecordSocial(written_social,
                               <<a.date_val, Val(platform_id[p]), Val(hashtag_id[p])>>,
                               <<a.views, a.videos, a.likes>>)
            /\ UNCHANGED written_marketplace
       ELSE /\ written_marketplace' =
                  RecordMarketplace(written_marketplace,
                                    <<a.date_val, Val(product_id[p])>>,
                                    <<a.avg_price, a.offer_count, a.sales_proxy>>)
            /\ UNCHANGED written_social
    /\ clock' = clock + 1
    /\ UNCHANGED <<dims, fault, calls, run, overlapped>>

\* conn.commit() raises: conn.rollback(), re-raise, conn.close(), and the
\* "except Exception" of the upsert returns False
CommitFault(p) ==
    /\ UNCHANGED <<html, pure, batch>>
    /\ pc[p] = "commit"
    /\ EndTx(p, RollbackTx(Committed, Val(conn[p])))
    /\ result' = [result EXCEPT ![p] = "False"]
    /\ fault' = [fault EXCEPT ![p] = "commit"]
    /\ UNCHANGED <<dims, clock, calls, run, history, overlapped>>

\* -------------------------------------------------------------------- text
\* A Python str is modelled as the sequence of its characters; the character
\* l-with-stroke of the zloty sign is written "l_stroke". A float or int is
\* modelled as the decimal m * 10^e, kept canonical: m = 0 and e = 0, or m not
\* divisible by 10. Decimal arithmetic is exact here.
Digits == << "0", "1", "2", "3", "4", "5", "6", "7", "8", "9" >>
IsDigit(c) == \E i \in 1..Len(Digits) : Digits[i] = c
DigitValue(c) == (CHOOSE i \in 1..Len(Digits) : Digits[i] = c) - 1

RECURSIVE Pow10(_)
Pow10(n) == IF n = 0 THEN 1 ELSE 10 * Pow10(n - 1)

\* the number written by a sequence of digits
RECURSIVE Number(_)
Number(ds) ==
    IF ds = <<>> THEN 0
    ELSE 10 * Number(SubSeq(ds, 1, Len(ds) - 1)) + DigitValue(ds[Len(ds)])

RECURSIVE Canon(_)
Canon(d) ==
    IF d.m = 0 THEN [m |-> 0, e |-> 0]
    ELSE IF d.m % 10 = 0 THEN Canon([m |-> d.m \div 10, e |-> d.e + 1])
    ELSE d

\* str.upper(), for the letters of the model
UpperChar(c) ==
    IF c = "k" THEN "K" ELSE IF c = "m" THEN "M" ELSE IF c = "b" THEN "B"
    ELSE IF c = "x" THEN "X" ELSE c

upper(s) == [i \in 1..Len(s) |-> UpperChar(s[i])]

\* str.strip()
RECURSIVE lstrip(_)
lstrip(s) == IF s /= <<>> /\ Head(s) = " " THEN lstrip(Tail(s)) ELSE s

RECURSIVE rstrip(_)
rstrip(s) ==
    IF s /= <<>> /\ s[Len(s)] = " " THEN rstrip(SubSeq(s, 1, Len(s) - 1)) ELSE s

strip(s) == lstrip(rstrip(s))

\* "old in s"
Contains(s, old) ==
    \E i \in 1..(Len(s) - Len(old) + 1) : SubSeq(s, i, i + Len(old) - 1) = old

\* s.replace(old, new): every occurrence, leftmost first
RECURSIVE replace(_, _, _)
replace(s, old, new) ==
    IF Len(s) < Len(old) THEN s
    ELSE IF SubSeq(s, 1, Len(old)) = old
    THEN new \o replace(SubSeq(s, Len(old) + 1, Len(s)), old, new)
    ELSE <<Head(s)>> \o replace(Tail(s), old, new)

\* float(s), for the characters of the model: surrounding blanks, an optional
\* sign, digits with at most one point and at least one digit. Some(decimal),
\* or None when float raises ValueError.
float(s) ==
    LET t == strip(s)
        signed == t /= <<>> /\ Head(t) \in {"+", "-"}
        u == IF signed THEN Tail(t) ELSE t
        points == {i \in 1..Len(u) : u[i] = "."}
        mag == Number(SelectSeq(u, IsDigit))
        frac == IF points = {} THEN 0 ELSE Len(u) - (CHOOSE i \in points : TRUE)
    IN IF /\ \A i \in 1..Len(u) : IsDigit(u[i]) \/ u[i] = "."
          /\ Cardinality(points) <= 1
          /\ \E i \in 1..Len(u) : IsDigit(u[i])
       THEN Some(Canon([m |-> IF signed /\ Head(t) = "-" THEN 0 - mag ELSE mag,
                        e |-> 0 - frac]))
       ELSE None

\* --------------------------------------------------- binary floating point
\* A natural number beyond a machine integer is held as its digits in base
\* 10000, least significant first, without leading zero digits.
RECURSIVE BigNorm(_)
BigNorm(n) ==
    IF n /= <<>> /\ n[Len(n)] = 0 THEN BigNorm(SubSeq(n, 1, Len(n) - 1)) ELSE n

RECURSIVE Big(_)
Big(i) == IF i = 0 THEN <<>> ELSE <<i % 10000>> \o Big(i \div 10000)

RECURSIVE BigValue(_)
BigValue(n) == IF n = <<>> THEN 0 ELSE Head(n) + 10000 * BigValue(Tail(n))

RECURSIVE BigMulCarry(_, _, _)
BigMulCarry(n, c, carry) ==
    IF n = <<>> THEN Big(carry)
    ELSE LET cur == Head(n) * c + carry
         IN <<cur % 10000>> \o BigMulCarry(Tail(n), c, cur \div 10000)

\* n * c and n * c^k, for c <= 10000
BigMul(n, c) == BigNorm(BigMulCarry(n, c, 0))

RECURSIVE BigMulPow(_, _, _)
BigMulPow(n, c, k) ==
    IF k = 0 \/ n = <<>> THEN n ELSE BigMulPow(BigMul(n, c), c, k - 1)

\* quotient and remainder of n by c, for c <= 10000
RECURSIVE BigDivMod(_, _)
BigDivMod(n, c) ==
    IF n = <<>> THEN [q |-> <<>>, r |-> 0]
    ELSE LET hi == BigDivMod(Tail(n), c)
             cur == hi.r * 10000 + Head(n)
         IN [q |-> <<cur \div c>> \o hi.q, r |-> cur % c]

BigDiv(n, c) == BigNorm(BigDivMod(n, c).q)

RECURSIVE BigShiftRight(_, _)
BigShiftRight(n, s) ==
    IF s = 0 \/ n = <<>> THEN n ELSE BigShiftRight(BigDiv(n, 2), s - 1)

RECURSIVE BigLess(_, _)
BigLess(a, b) ==
    IF Len(a) /= Len(b) THEN Len(a) < Len(b)
    ELSE IF a = <<>> THEN FALSE
    ELSE IF a[Len(a)] /= b[Len(b)] THEN a[Len(a)] < b[Len(b)]
    ELSE BigLess(SubSeq(a, 1, Len(a) - 1), SubSeq(b, 1, Len(b) - 1))

RECURSIVE BigInc(_)
BigInc(n) ==
    IF n = <<>> THEN <<1>>
    ELSE IF Head(n) < 9999 THEN <<Head(n) + 1>> \o Tail(n)
    ELSE <<0>> \o BigInc(Tail(n))

BigOdd(n) == n /= <<>> /\ Head(n) % 2 = 1

\* a double has a significand of 53 bits
Two52 == BigMulPow(<<1>>, 2, 52)
Two53 == BigMulPow(<<1>>, 2, 53)

\* num is doubled until it reaches low and exp counts the doublings down; a
\* double has no exponent below -1074
RECURSIVE ScaleUp(_, _, _)
ScaleUp(num, low, exp) ==
    IF BigLess(num, low) /\ exp > 0 - 1074
    THEN ScaleUp(BigMul(num, 2), low, exp - 1)
    ELSE [num |-> num, exp |-> exp]

\* the quotient dm of the scaled numerator by den, rounded to the nearest
\* integer, ties to the even one
Nearest(dm, den) ==
    IF 2 * dm.r > den \/ (2 * dm.r = den /\ BigOdd(BigNorm(dm.q)))
    THEN BigInc(BigNorm(dm.q))
    ELSE BigNorm(dm.q)

\* the significand of 53 bits of a / den, with the exponent s.exp of the
\* scaled numerator s.num
Significand(neg, s, den) ==
    [neg |-> neg, mant |-> Nearest(BigDivMod(s.num, den), den), exp |-> s.exp]

\* the double that float(str) gives for the decimal x written in str: the
\* nearest one, ties to the even significand. [neg, mant, exp] is the double
\* (-1)^neg * mant * 2^exp. For decimals below 2^52 of at most 4 fraction
\* digits.
Double(x) ==
    LET a == IF x.m < 0 THEN 0 - x.m ELSE x.m
        den == Pow10(IF x.e < 0 THEN 0 - x.e ELSE 0)
    IN IF x.m = 0 THEN [neg |-> FALSE, mant |-> <<>>, exp |-> 0]
       ELSE Significand(x.m < 0,
                        ScaleUp(BigMulPow(Big(a), 10, IF x.e > 0 THEN x.e ELSE 0),
                                BigMul(Two52, den), 0),
                        den)

\* p * 2^exp rounded to a significand of 53 bits, ties to even, for products
\* below the largest double; guard is the last bit shifted out, sticky
\* whether a bit shifted out before it was set
RECURSIVE RoundShift(_, _, _, _)
RoundShift(p, exp, guard, sticky) ==
    IF ~BigLess(p, Two53) /\ exp < 971
    THEN RoundShift(BigDiv(p, 2), exp + 1, BigOdd(p), sticky \/ guard)
    ELSE [mant |-> IF guard /\ (sticky \/ BigOdd(p)) THEN BigInc(p) ELSE p,
          exp |-> exp]

\* the double of sign neg and rounded significand r
Signed(neg, r) == [neg |-> neg, mant |-> r.mant, exp |-> r.exp]

\* the double d times 10^k, rounded once
Product(d, k) ==
    Signed(d.neg, RoundShift(BigMulPow(d.mant, 10, k), d.exp, FALSE, FALSE))

\* float(str) * 10^k for k in {0, 3, 6, 9}: the product of two doubles,
\* rounded once
Times(x, k) == Product(Double(x), k)

\* the integer of sign neg and magnitude mag; zero has no sign
Integer(neg, mag) == [neg |-> neg /\ mag /= <<>>, mag |-> mag]

\* int(d) of a double: truncation towards zero; the integer is [neg, mag]
int(d) ==
    Integer(d.neg, IF d.exp >= 0 THEN BigMulPow(d.mant, 2, d.exp)
                   ELSE BigShiftRight(d.mant, 0 - d.exp))

\* the machine integer of an integer [neg, mag] below 2^31
IntValue(n) == IF n.neg THEN 0 - BigValue(n.mag) ELSE BigValue(n.mag)

\* ------------------------------------------------------ numeric normalizers
\* what a call did: it raised, or it returned value
Raised == [raised |-> TRUE, value |-> None]
Returned(v) == [raised |-> FALSE, value |-> v]

\* TikTokScraper._parse_count
parse_count(count_str) ==
    LET s == strip(upper(count_str))
        k == IF Contains(s, <<"B">>) THEN 9
             ELSE IF Contains(s, <<"M">>) THEN 6
             ELSE IF Contains(s, <<"K">>) THEN 3 ELSE 0
        f == float(IF k = 9 THEN replace(s, <<"B">>, <<>>)
                   ELSE IF k = 6 THEN replace(s, <<"M">>, <<>>)
                   ELSE IF k = 3 THEN replace(s, <<"K">>, <<>>) ELSE s)
    IN IF f = None THEN Raised ELSE Returned(Some(int(Times(Val(f), k))))

\* AllegroScraper._parse_price: the except clause turns ValueError into None
parse_price(price_str) ==
    LET s1 == strip(replace(replace(price_str, <<"z", "l_stroke">>, <<>>),
                            <<"P", "L", "N">>, <<>>))
        s2 == replace(replace(s1, <<",">>, <<".">>), <<" ">>, <<>>)
    IN Returned(float(s2))

\* the texts of at most n characters over the characters cs
RECURSIVE Texts(_, _)
Texts(cs, n) ==
    IF n = 0 THEN {<<>>}
    ELSE LET shorter == Texts(cs, n - 1)
         IN shorter \cup {Append(t, c) : t \in shorter, c \in cs}

\* the count texts the pattern of Method 2 captures: a decimal mantissa and
\* an optional suffix
Mantissas ==
    { w \o f : w \in { <<"1">>, <<"4">>, <<"7">>, <<"4", "5">> },
               f \in { <<>>, <<".", "1">>, <<".", "2">>, <<".", "3">> } }
Suffixes == { <<>>, <<"K">>, <<"M">>, <<"B">>, <<"k">>, <<"m">>, <<"b">> }
MagnitudeTexts == { m \o x : m \in Mantissas, x \in Suffixes }

CountChars == {"1", "2", ".", "K", "m", "B", " ", "x"}
PriceChars == {"1", "5", "0", ",", ".", " ", "z", "l_stroke", "-"}

\* a normalizer is called once on a text
CallParseCount ==
    /\ text = None
    /\ \E s \in Texts(CountChars, MaxLen) \cup MagnitudeTexts :
          /\ text' = Some([fn |-> "_parse_count", str |-> s])
          /\ parsed' = Some(parse_count(s))
    /\ UNCHANGED <<store, clock, write_lock, pc, args, locals, conn, result,
                   fault, calls, run, history, overlapped, html, data, query,
                   fetched,
                   batch>>

CallParsePrice ==
    /\ text = None
    /\ \E s \in Texts(PriceChars, MaxLen) :
          /\ text' = Some([fn |-> "_parse_price", str |-> s])
          /\ parsed' = Some(parse_price(s))
    /\ UNCHANGED <<store, clock, write_lock, pc, args, locals, conn, result,
                   fault, calls, run, history, overlapped, html, data, query,
                   fetched,
                   batch>>

\* -------------------------------------------------------------------- JSON
\* what json.loads gives for the text of a data block: a value tagged with its
\* type (field o holds the members of an object, a the items of an array, n a
\* number, s a string), or Malformed when json.loads raises (the text is not
\* JSON, or the script tag has no string)
Obj(f) == [t |-> "object", o |-> f, a |-> <<>>, n |-> 0, s |-> ""]
Arr(q) == [t |-> "array", o |-> <<>>, a |-> q, n |-> 0, s |-> ""]
Num(i) == [t |-> "number", o |-> <<>>, a |-> <<>>, n |-> i, s |-> ""]
Str(c) == [t |-> "string", o |-> <<>>, a |-> <<>>, n |-> 0, s |-> c]
Null == [t |-> "null", o |-> <<>>, a |-> <<>>, n |-> 0, s |-> ""]
Malformed == [t |-> "malformed", o |-> <<>>, a |-> <<>>, n |-> 0, s |-> ""]
EmptyObj == Obj(<<>>)

\* d.get(key, default) on a dict d
Get(d, key, default) == IF key \in DOMAIN d.o THEN d.o[key] ELSE default

\* Python truthiness of a loaded value
JsonTruthy(j) ==
    IF j.t = "null" THEN FALSE
    ELSE IF j.t = "number" THEN j.n /= 0
    ELSE IF j.t = "string" THEN j.s /= ""
    ELSE IF j.t = "array" THEN j.a /= <<>>
    ELSE DOMAIN j.o /= {}

\* the Python value of a loaded value as a field of a measurement: null is None
Field(j) == IF j.t = "null" THEN None ELSE Some(j)

\* what one extraction strategy does: it yields a measurement, finds nothing,
\* or raises
Yield(m) == [out |-> "yield", value |-> Some(m)]
Nothing == [out |-> "nothing", value |-> None]
Raise == [out |-> "raise", value |-> None]

\* int(s) of a str, for the characters of the model: Some(n), or None when
\* int raises ValueError
int_str(s) ==
    LET t == strip(s) IN
    IF t /= <<>> /\ \A i \in 1..Len(t) : IsDigit(t[i]) THEN Some(Number(t))
    ELSE None

\* the count a normalizer returned, as a field of a measurement
CountField(value) ==
    IF value = None THEN None ELSE Some(Num(IntValue(Val(value))))

\* --------------------------------------------------------- TikTok extractor
\* A TikTok page is modelled by what the extractor looks at: script, the
\* loaded text of the script tag with id __UNIVERSAL_DATA_FOR_REHYDRATION__
\* (None without such a tag), and views_text / videos_text, the count that the
\* pattern "<count> views" / "<count> videos" captures (None without a match).

\* Method 1: the embedded data block
TikTokStructured(page) ==
    IF page.script = None THEN Nothing
    ELSE LET loaded == Val(page.script) IN
    IF loaded.t /= "object" THEN Raise
    ELSE LET scope == Get(loaded, "__DEFAULT_SCOPE__", EmptyObj) IN
    IF scope.t /= "object" THEN Raise
    ELSE LET challenge_info == Get(scope, "webapp.challenge-detail", EmptyObj) IN
    IF ~JsonTruthy(challenge_info) THEN Nothing
    ELSE IF challenge_info.t /= "object" THEN Raise
    ELSE LET info == Get(challenge_info, "challengeInfo", EmptyObj) IN
    IF info.t /= "object" THEN Raise
    ELSE LET stats == Get(info, "stats", EmptyObj) IN
    IF stats.t /= "object" THEN Raise
    ELSE Yield([views |-> Field(Get(stats, "viewCount", Num(0))),
                videos |-> Field(Get(stats, "videoCount", Num(0))),
                likes |-> None])

\* Method 2: the counts in the text of the page
TikTokFreeText(page) ==
    IF page.views_text = None /\ page.videos_text = None THEN Nothing
    ELSE LET views == IF page.views_text = None THEN Returned(None)
                      ELSE parse_count(Val(page.views_text))
             videos == IF page.videos_text = None THEN Returned(None)
                       ELSE parse_count(Val(page.videos_text))
         IN IF views.raised \/ videos.raised THEN Raise
            ELSE Yield([views |-> CountField(views.value),
                        videos |-> CountField(videos.value),
                        likes |-> None])

\* TikTokScraper._extract_hashtag_data: one try block around both methods
TikTok_extract_hashtag_data(page) ==
    LET m1 == TikTokStructured(page) IN
    IF m1.out = "raise" THEN None
    ELSE IF m1.out = "yield" THEN m1.value
    ELSE LET m2 == TikTokFreeText(page) IN
         IF m2.out = "yield" THEN m2.value ELSE None

\* ------------------------------------------------------ Instagram extractor
\* An Instagram page is modelled by: shared, the loaded text that follows
\* "window._sharedData =" (None without it); meta, the count that the pattern
\* "<count> posts" captures in the og:description meta tag (None without the
\* tag or a match); posts_text, the count the pattern captures in the page.

\* x[0]: indexing a str gives a str, on which the next .get raises
Index0(j) ==
    IF j.t = "array" /\ j.a /= <<>> THEN Some(j.a[1]) ELSE None

\* Method 1: the embedded data block
InstagramStructured(page) ==
    IF page.shared = None THEN Nothing
    ELSE LET loaded == Val(page.shared) IN
    IF loaded.t /= "object" THEN Raise
    ELSE LET entry_data == Get(loaded, "entry_data", EmptyObj) IN
    IF entry_data.t /= "object" THEN Raise
    ELSE LET first == Index0(Get(entry_data, "TagPage", Arr(<<EmptyObj>>))) IN
    IF first = None THEN Raise
    ELSE LET edge_hashtag == Val(first) IN
    IF ~JsonTruthy(edge_hashtag) THEN Nothing
    ELSE IF edge_hashtag.t /= "object" THEN Raise
    ELSE LET graphql == Get(edge_hashtag, "graphql", EmptyObj) IN
    IF graphql.t /= "object" THEN Raise
    ELSE LET hashtag_info == Get(graphql, "hashtag", EmptyObj) IN
    IF hashtag_info.t /= "object" THEN Raise
    ELSE LET media == Get(hashtag_info, "edge_hashtag_to_media", EmptyObj) IN
    IF media.t /= "object" THEN Raise
    ELSE Yield([videos |-> Field(Get(media, "count", Num(0))),
                views |-> None, likes |-> None])

\* int(match.group(1).replace(',', '')) of a captured count
PostCount(group) ==
    LET n == int_str(replace(group, <<",">>, <<>>)) IN
    IF n = None THEN Raise
    ELSE Yield([videos |-> Some(Num(Val(n))), views |-> None, likes |-> None])

\* Method 2: the og:description meta tag
InstagramMetadata(page) ==
    IF page.meta = None THEN Nothing ELSE PostCount(Val(page.meta))

\* Method 3: the text of the page
InstagramFreeText(page) ==
    IF page.posts_text = None THEN Nothing ELSE PostCount(Val(page.posts_text))

\* InstagramScraper._extract_hashtag_data: one try block around the methods
Instagram_extract_hashtag_data(page) ==
    LET m1 == InstagramStructured(page) IN
    IF m1.out = "raise" THEN None
    ELSE IF m1.out = "yield" THEN m1.value
    ELSE LET m2 == InstagramMetadata(page) IN
         IF m2.out = "raise" THEN None
         ELSE IF m2.out = "yield" THEN m2.value
         ELSE LET m3 == InstagramFreeText(page) IN
              IF m3.out = "yield" THEN m3.value ELSE None

\* ------------------------------------------------------------ hashtag pages
\* the data block of a TikTok hashtag page with the given stats
TikTokBlock(stats) ==
    Obj("__DEFAULT_SCOPE__" :>
        Obj("webapp.challenge-detail" :>
            Obj("challengeInfo" :> Obj("stats" :> stats))))

TikTokScripts ==
    { None,
      Some(Malformed),
      Some(Arr(<<>>)),
      Some(EmptyObj),
      Some(Obj("__DEFAULT_SCOPE__" :> Str("error"))),
      Some(Obj("__DEFAULT_SCOPE__" :> EmptyObj)),
      Some(Obj("__DEFAULT_SCOPE__" :>
               Obj("webapp.challenge-detail" :> Obj("statusCode" :> Num(0))))),
      Some(Obj("__DEFAULT_SCOPE__" :>
               Obj("webapp.challenge-detail" :>
                   Obj("challengeInfo" :> Obj("challenge" :> Str("desksetup")))))),
      Some(TikTokBlock(Obj("viewCount" :> Num(5) @@ "videoCount" :> Num(3)))),
      Some(TikTokBlock(Obj("viewCount" :> Num(0 - 1) @@ "videoCount" :> Num(3)))),
      Some(TikTokBlock(Obj("viewCount" :> Str("n/a") @@ "videoCount" :> Null))) }

CountTexts == { <<"7">>, <<"1", ".", "2", "M">>, <<"4", "5", ".", "3", "k">> }

TikTokPages ==
    [script : TikTokScripts,
     views_text : {None} \cup {Some(s) : s \in CountTexts},
     videos_text : {None, Some(<<"7">>)}]

\* the data block of an Instagram hashtag page with the given tag page
InstagramBlock(tag_page) ==
    Obj("entry_data" :> Obj("TagPage" :> Arr(<<tag_page>>)))

InstagramShared ==
    { None,
      Some(Malformed),
      Some(EmptyObj),
      Some(Obj("entry_data" :> Str("error"))),
      Some(Obj("entry_data" :> Obj("TagPage" :> Arr(<<>>)))),
      Some(InstagramBlock(EmptyObj)),
      Some(InstagramBlock(Obj("status" :> Str("ok")))),
      Some(InstagramBlock(Obj("graphql" :> Obj("hashtag" :> Obj("name" :> Str("desksetup")))))),
      Some(InstagramBlock(Obj("graphql" :> Obj("hashtag" :>
              Obj("edge_hashtag_to_media" :> Obj("count" :> Num(5))))))),
      Some(InstagramBlock(Obj("graphql" :> Obj("hashtag" :>
              Obj("edge_hashtag_to_media" :> Obj("count" :> Num(0 - 1))))))) }

PostTexts == { <<"7">>, <<"1", ",", "2", "3", "4">>, <<",">> }

InstagramPages ==
    [shared : InstagramShared,
     meta : {None, Some(<<"7">>), Some(<<",">>)},
     posts_text : {None} \cup {Some(s) : s \in PostTexts}]

\* the extractor of a collector
extract_hashtag_data(kind, page) ==
    IF kind = "TikTok" THEN TikTok_extract_hashtag_data(page)
    ELSE Instagram_extract_hashtag_data(page)

\* an extractor is handed a page
ExtractTikTok ==
    /\ html = None
    /\ \E page \in TikTokPages :
          /\ html' = Some([kind |-> "TikTok", page |-> page])
          /\ data' = Some(TikTok_extract_hashtag_data(page))
    /\ UNCHANGED <<store, clock, write_lock, pc, args, locals, conn, result,
                   fault, calls, run, history, overlapped, text, parsed, query,
                   fetched,
                   batch>>

ExtractInstagram ==
    /\ html = None
    /\ \E page \in InstagramPages :
          /\ html' = Some([kind |-> "Instagram", page |-> page])
          /\ data' = Some(Instagram_extract_hashtag_data(page))
    /\ UNCHANGED <<store, clock, write_lock, pc, args, locals, conn, result,
                   fault, calls, run, history, overlapped, text, parsed, query,
                   fetched,
                   batch>>

\* -------------------------------------------------------- Allegro extractor
\* A result page is modelled by its listing fragments in document order:
\* articles (the <article> elements) and offers (the <div data-box-name="offer">
\* elements). A fragment is modelled by what the loop looks at: price_text, the
\* text of its price element (None without one); sold, the "kupilo ... osob"
\* phrase in its markup; fails, whether processing it raises unexpectedly
\* (an exception of the HTML library). A price is held as a decimal, an
\* average price as a number of hundredths.
ALLEGRO_TOP_N_LISTINGS == 20

\* soup.find_all(..., limit=limit)
find_all(elements, limit) ==
    SubSeq(elements, 1, IF Len(elements) < limit THEN Len(elements) ELSE limit)

NoPhrase == [form |-> "none", digits |-> <<>>]
Bought(digits) == [form |-> "osob", digits |-> digits]
BoughtOne == [form |-> "osoba", digits |-> <<>>]

\* AllegroScraper._extract_sales_proxy
extract_sales_proxy(sold) ==
    IF sold.form = "osob" THEN int_str(sold.digits)
    ELSE IF sold.form = "osoba" THEN Some(1)
    ELSE None

\* the price the loop parses for a fragment, None without a price element
PriceOf(listing) ==
    IF listing.price_text = None THEN None
    ELSE parse_price(Val(listing.price_text)).value

\* Python truthiness of an Optional float: None and 0.0 are falsy
TruthyDec(o) == o /= None /\ Val(o).m /= 0

\* the list prices after the loop: "if price: prices.append(price)"
RECURSIVE Prices(_)
Prices(listings) ==
    IF listings = <<>> THEN <<>>
    ELSE LET price == PriceOf(Head(listings)) IN
         (IF TruthyDec(price) THEN <<Val(price)>> ELSE <<>>)
            \o Prices(Tail(listings))

\* the list sales_indicators after the loop: "if sales_proxy: ...append"
RECURSIVE SalesIndicators(_)
SalesIndicators(listings) ==
    IF listings = <<>> THEN <<>>
    ELSE LET sales_proxy == extract_sales_proxy(Head(listings).sold) IN
         (IF Truthy(sales_proxy) THEN <<Val(sales_proxy)>> ELSE <<>>)
            \o SalesIndicators(Tail(listings))

RECURSIVE sum(_)
sum(ns) == IF ns = <<>> THEN 0 ELSE Head(ns) + sum(Tail(ns))

\* the largest number of fraction digits of the decimals ds
RECURSIVE FractionDigits(_)
FractionDigits(ds) ==
    IF ds = <<>> THEN 0
    ELSE LET rest == FractionDigits(Tail(ds))
             own == IF Head(ds).e < 0 THEN 0 - Head(ds).e ELSE 0
         IN IF own > rest THEN own ELSE rest

\* the sum of the decimals ds in units of 10^-k
RECURSIVE SumUnits(_, _)
SumUnits(ds, k) ==
    IF ds = <<>> THEN 0
    ELSE Head(ds).m * Pow10(Head(ds).e + k) + SumUnits(Tail(ds), k)

\* num / den rounded to the nearest integer, halves to the even one
RoundHalfEven(num, den) ==
    LET a == IF num < 0 THEN 0 - num ELSE num
        q == a \div den
        r == a % den
        up == IF 2 * r > den \/ (2 * r = den /\ q % 2 = 1) THEN q + 1 ELSE q
    IN IF num < 0 THEN 0 - up ELSE up

\* round(mean(prices), 2) in hundredths, None when the mean is falsy. A mean
\* halfway between two hundredths is rounded as the decimal it is.
mean_round2(prices) ==
    LET k == FractionDigits(prices)
        total == SumUnits(prices, k)
    IN IF total = 0 THEN None
       ELSE Some(RoundHalfEven(total * 100, Len(prices) * Pow10(k)))

\* variant: offer_count = len(prices)
Aggregate_CountPriced(listings) ==
    LET prices == Prices(listings)
        sales_indicators == SalesIndicators(listings)
    IN [avg_price |-> IF prices = <<>> THEN None ELSE mean_round2(prices),
        offer_count |-> Some(Len(prices)),
        sales_proxy |-> IF sales_indicators = <<>> THEN None
                        ELSE Some(sum(sales_indicators))]

\* the loop over the listings and "Calculate metrics"
Aggregate(listings) ==
    LET prices == Prices(listings)
        sales_indicators == SalesIndicators(listings)
    IN [avg_price |-> IF prices = <<>> THEN None ELSE mean_round2(prices),
        offer_count |-> Some(Len(listings)),
        sales_proxy |-> IF sales_indicators = <<>> THEN None
                        ELSE Some(sum(sales_indicators))]

\* the listings the loop samples from a page
Listings(page) ==
    LET articles == find_all(page.articles, ALLEGRO_TOP_N_LISTINGS) IN
    IF articles /= <<>> THEN articles
    ELSE find_all(page.offers, ALLEGRO_TOP_N_LISTINGS)

\* variant: without "if not listings: return None"
scrape_product_keyword_EmptySample(response) ==
    IF response = None THEN None
    ELSE LET listings == Listings(Val(response)) IN
         IF \E i \in 1..Len(listings) : listings[i].fails THEN None
         ELSE Some(Aggregate(listings))

\* AllegroScraper.scrape_product_keyword on the response of the request
\* (None: no response, or a status other than 200); one try block around all
scrape_product_keyword(response) ==
    IF response = None THEN None
    ELSE LET listings == Listings(Val(response)) IN
         IF listings = <<>> THEN None
         ELSE IF \E i \in 1..Len(listings) : listings[i].fails THEN None
         ELSE Some(Aggregate(listings))

\* ------------------------------------------------------------ result pages
PriceTexts ==
    { <<"4", ",", "5", "0", " ", "z", "l_stroke">>, <<"2">>, <<"0">>, <<"x">> }

Fragments ==
    [price_text : {None} \cup {Some(s) : s \in PriceTexts},
     sold : {NoPhrase, Bought(<<"3">>), Bought(<<"0">>), BoughtOne},
     fails : {FALSE}]
    \cup {[price_text |-> Some(<<"2">>), sold |-> Bought(<<"3">>), fails |-> TRUE]}

\* pages of at most MaxFragments articles or offers, and pages of one more
\* article than the sample takes
ListingPages ==
    {[articles |-> a, offers |-> <<>>] : a \in Texts(Fragments, MaxFragments)}
    \cup {[articles |-> <<>>, offers |-> o] : o \in Texts(Fragments, MaxFragments)}
    \cup {[articles |-> [i \in 1..(ALLEGRO_TOP_N_LISTINGS + 1) |-> f],
           offers |-> <<>>] : f \in Fragments}

ScrapeKeyword ==
    /\ html = None
    /\ \E response \in {None} \cup {Some(page) : page \in ListingPages} :
          /\ html' = Some([kind |-> "Allegro", page |-> response])
          /\ data' = Some(scrape_product_keyword(response))
    /\ UNCHANGED <<store, clock, write_lock, pc, args, locals, conn, result,
                   fault, calls, run, history, overlapped, text, parsed, query,
                   fetched,
                   batch>>

\* ---------------------------------------------------------- collection runs
Collectors == {"TikTok", "Instagram", "Allegro"}

ConfiguredList(kind) ==
    IF kind = "TikTok" THEN TIKTOK_HASHTAGS
    ELSE IF kind = "Instagram" THEN INSTAGRAM_HASHTAGS
    ELSE ALLEGRO_KEYWORDS

\* the entities a run visits: the configured list, cut at MaxEntities
Entities(kind) ==
    LET l == ConfiguredList(kind) IN
    SubSeq(l, 1, IF Len(l) < MaxEntities THEN Len(l) ELSE MaxEntities)

\* the responses a run gets for its requests: None is a failed request or a
\* status other than 200, Some(page) a page. The data blocks of the pages hold
\* numbers, and the numbers may be negative.
TikTokRunPages ==
    { [script |-> s, views_text |-> None, videos_text |-> None] :
        s \in { None,
                Some(TikTokBlock(Obj("viewCount" :> Num(5) @@ "videoCount" :> Num(3)))),
                Some(TikTokBlock(Obj("viewCount" :> Num(0 - 1) @@ "videoCount" :> Num(3)))) } }
    \cup { [script |-> None, views_text |-> Some(<<"7">>), videos_text |-> None] }

InstagramRunPages ==
    { [shared |-> s, meta |-> None, posts_text |-> None] :
        s \in { None,
                Some(InstagramBlock(Obj("graphql" :> Obj("hashtag" :>
                    Obj("edge_hashtag_to_media" :> Obj("count" :> Num(5))))))) } }
    \cup { [shared |-> None, meta |-> Some(<<"7">>), posts_text |-> None] }

AllegroRunPages ==
    { [articles |-> <<>>, offers |-> <<>>],
      [articles |-> << [price_text |-> Some(<<"4", ",", "5", "0", " ", "z", "l_stroke">>),
                        sold |-> Bought(<<"3">>), fails |-> FALSE] >>,
       offers |-> <<>>],
      [articles |-> <<>>,
       offers |-> << [price_text |-> None, sold |-> NoPhrase, fails |-> FALSE] >>] }

RunResponses(kind) ==
    {None} \cup
    { Some(page) : page \in
        IF kind = "TikTok" THEN TikTokRunPages
        ELSE IF kind = "Instagram" THEN InstagramRunPages
        ELSE AllegroRunPages }

\* the page an earlier run of a collector got for the first entity of its list
EarlierPage(kind) ==
    IF kind = "TikTok"
    THEN [script |-> Some(TikTokBlock(Obj("viewCount" :> Num(5) @@ "videoCount" :> Num(3)))),
          views_text |-> None, videos_text |-> None]
    ELSE IF kind = "Instagram"
    THEN [shared |-> Some(InstagramBlock(Obj("graphql" :> Obj("hashtag" :>
                        Obj("edge_hashtag_to_media" :> Obj("count" :> Num(5))))))),
          meta |-> None, posts_text |-> None]
    ELSE [articles |-> << [price_text |-> Some(<<"4", ",", "5", "0", " ", "z", "l_stroke">>),
                           sold |-> Bought(<<"3">>), fails |-> FALSE] >>,
          offers |-> <<>>]

\* the responses of a daily batch: a failed request, or the page EarlierPage
BatchResponses(kind) == {None, Some(EarlierPage(kind))}

\* the responses the run of process p may get for a request
Responses(p) ==
    IF stage = "none" THEN RunResponses(run_kind[p])
    ELSE BatchResponses(run_kind[p])

\* TikTokScraper.scrape_hashtag / InstagramScraper.scrape_hashtag on the
\* response of the request: "if data: return data", else None
scrape_hashtag(kind, response) ==
    IF response = None THEN None
    ELSE extract_hashtag_data(kind, Val(response))

\* the scrape call of a collector
scrape(kind, response) ==
    IF kind = "Allegro" THEN scrape_product_keyword(response)
    ELSE scrape_hashtag(kind, response)

\* the values scrape_hashtag / scrape_product_keyword return in a run: None,
\* or a measurement
ScrapeResults(kind) == { scrape(kind, response) : response \in RunResponses(kind) }

\* the value sqlite3 binds for a field of a social measurement: None is NULL,
\* a number is itself
Bind(field) == IF field = None THEN None ELSE Some(Val(field).n)

\* the parameters of the upsert for measurement m (metrics.get(...)); an
\* average price is held in hundredths
Bound(kind, m) ==
    IF kind = "Allegro" THEN m
    ELSE [views |-> Bind(m.views), videos |-> Bind(m.videos),
          likes |-> Bind(m.likes)]

\* variant: "if save_to_db"
ShouldSave_Always(save_to_db, metrics) == save_to_db

\* "if save_to_db and metrics"
ShouldSave(save_to_db, metrics) == save_to_db /\ metrics /= None

\* the upsert call of a collector for entity e with measurement m
RunCallArgs(kind, today, e, metrics) ==
    LET m == Bound(kind, metrics) IN
    IF kind = "Allegro"
    THEN MarketplaceArgs(today, e, m.avg_price, m.offer_count, m.sales_proxy)
    ELSE SocialArgs(today, kind, e, m.views, m.videos, m.likes)

\* the fact tables of a seeded database in which an earlier run of collector
\* kind, on date 1, saved measurement m for the first entity of its list
AfterEarlierSave(kind, metrics) ==
    LET m == Bound(kind, metrics)
        e == Entities(kind)[1]
        seq0 == [hashtags |-> SeededHashtags.seq,
                 products |-> SeededProducts.seq, social_metrics |-> 0,
                 marketplace_metrics |-> 0]
    IN IF kind = "Allegro"
       THEN LET prid == Val(get_product_id(SeededProducts.tbl, e))
                u == UpsertMarketplace([tbl |-> {}, seq |-> 0], 1, prid,
                                       m.avg_price, m.offer_count,
                                       m.sales_proxy, 1)
            IN [social_metrics |-> {}, marketplace_metrics |-> u.tbl,
                sequence |-> [seq0 EXCEPT !.marketplace_metrics = u.seq],
                written_social |-> {},
                written_marketplace |->
                    RecordMarketplace({}, <<1, prid>>,
                        <<m.avg_price, m.offer_count, m.sales_proxy>>)]
       ELSE LET pid == Val(get_platform_id(SeededPlatforms, kind))
                hid == Val(get_hashtag_id(SeededHashtags.tbl, e))
                u == UpsertSocial([tbl |-> {}, seq |-> 0], 1, pid, hid,
                                  m.views, m.videos, m.likes, 1)
            IN [social_metrics |-> u.tbl, marketplace_metrics |-> {},
                sequence |-> [seq0 EXCEPT !.social_metrics = u.seq],
                written_social |->
                    RecordSocial({}, <<1, pid, hid>>,
                                 <<m.views, m.videos, m.likes>>),
                written_marketplace |-> {}]

\* a measurement in which every field the collector extracts is present
Complete(kind, m) ==
    IF kind = "Allegro" THEN m.avg_price /= None /\ m.sales_proxy /= None
    ELSE IF kind = "TikTok" THEN m.views /= None /\ m.videos /= None
    ELSE m.videos /= None

\* a collection run starts on a database that is not seeded yet, or seeded
\* and empty, or seeded and holding the complete measurement that an earlier
\* run extracted from EarlierPage
InitRun ==
    \/ Init
    \/ InitSeeded
    \/ /\ InitProcs
       /\ platforms = SeededPlatforms
       /\ hashtags = SeededHashtags.tbl
       /\ products = SeededProducts.tbl
       /\ clock = 2
       /\ \E k \in Collectors :
             \E mm \in {x \in {scrape(k, Some(EarlierPage(k)))} :
                                x /= None /\ Complete(k, Val(x))} :
                LET st == AfterEarlierSave(k, Val(mm)) IN
                /\ social_metrics = st.social_metrics
                /\ marketplace_metrics = st.marketplace_metrics
                /\ sequence = st.sequence
                /\ written_social = st.written_social
                /\ written_marketplace = st.written_marketplace

\* scrape_all_hashtags / scrape_all_keywords is entered
StartRun(p) ==
    /\ UNCHANGED <<html, pure, batch>>
    /\ pc[p] = "idle" /\ run_status[p] /= "running" /\ runs < MaxRuns
    /\ \E k \in Collectors, s \in BOOLEAN, d \in Dates :
          /\ run_kind' = [run_kind EXCEPT ![p] = k]
          /\ run_save' = [run_save EXCEPT ![p] = s]
          /\ run_today' = [run_today EXCEPT ![p] = d]
    /\ run_status' = [run_status EXCEPT ![p] = "running"]
    /\ run_idx' = [run_idx EXCEPT ![p] = 1]
    /\ run_results' = [run_results EXCEPT ![p] = <<>>]
    /\ runs' = runs + 1
    /\ UNCHANGED <<store, clock, write_lock, pc, args, locals, conn, result,
                   fault, calls, history, overlapped>>

\* one iteration of the loop: scrape the entity, record the result, and call
\* the upsert when there is a measurement to save. metrics.get on None raises
\* AttributeError, which leaves the loop.
ScrapeEntity(p) ==
    /\ UNCHANGED pure
    /\ pc[p] = "idle" /\ run_status[p] = "running"
    /\ run_idx[p] <= Len(Entities(run_kind[p]))
    /\ \E response \in Responses(p) :
          LET metrics == scrape(run_kind[p], response) IN
          IF ShouldSave(run_save[p], metrics) /\ metrics = None
          THEN /\ EndRun(p, "raised")
               /\ UNCHANGED <<pc, args, locals, result, fault, overlapped>>
          ELSE /\ html' = Some([kind |-> run_kind[p], page |-> response])
               /\ UNCHANGED batch
               /\ run_results' = [run_results EXCEPT ![p] = Append(@, metrics)]
               /\ run_idx' = [run_idx EXCEPT ![p] = @ + 1]
               /\ UNCHANGED <<run_status, run_kind, run_today, run_save>>
               /\ IF ShouldSave(run_save[p], metrics)
                  THEN BeginCall(p, RunCallArgs(run_kind[p], run_today[p],
                                     Entities(run_kind[p])[run_idx[p]],
                                     Val(metrics)))
                  ELSE /\ result' = [result EXCEPT ![p] = "none"]
                       /\ fault' = [fault EXCEPT ![p] = "none"]
                       /\ UNCHANGED <<pc, args, locals, overlapped>>
    /\ UNCHANGED <<store, clock, write_lock, conn, calls, runs, history>>

\* "return results" after the last entity
ReturnResults(p) ==
    /\ UNCHANGED pure
    /\ pc[p] = "idle" /\ run_status[p] = "running"
    /\ run_idx[p] > Len(Entities(run_kind[p]))
    /\ EndRun(p, "returned")
    /\ result' = [result EXCEPT ![p] = "none"]
    /\ fault' = [fault EXCEPT ![p] = "none"]
    /\ UNCHANGED <<store, clock, write_lock, pc, args, locals, conn, calls,
                   runs, history, overlapped>>

\* --------------------------------------------------------------- daily batch
\* a DailyBatchRunner is constructed on some day and run_all is entered
run_all ==
    /\ stage = "none" /\ pc[1] = "idle" /\ run_status[1] = "none"
    /\ stage' = "TikTok"
    /\ \E d \in Dates :
          batch_results' = [batch_results EXCEPT !.start_time = Some(d)]
    /\ UNCHANGED <<ok, started, html, pure, store, clock,
                   write_lock, pc, args, locals, conn, result, fault, calls,
                   run, history, overlapped>>

\* run_all calls the next of run_tiktok, run_instagram and run_allegro, which
\* calls scrape_all_hashtags / scrape_all_keywords with save_to_db=True; the
\* batch runs within the day it started on
run_collector(p) ==
    /\ stage \in Collectors /\ pc[p] = "idle" /\ run_status[p] /= "running"
    /\ run_today' = [run_today EXCEPT ![p] = Val(batch_results.start_time)]
    /\ run_kind' = [run_kind EXCEPT ![p] = stage]
    /\ run_save' = [run_save EXCEPT ![p] = TRUE]
    /\ run_status' = [run_status EXCEPT ![p] = "running"]
    /\ run_idx' = [run_idx EXCEPT ![p] = 1]
    /\ run_results' = [run_results EXCEPT ![p] = <<>>]
    /\ started' = Append(started, stage)
    /\ UNCHANGED <<stage, ok, batch_results, runs, html, pure, store, clock,
                   write_lock, pc, args, locals, conn, result, fault, calls,
                   history, overlapped>>

\* ------------------------------------------------------------------ queries
\* the names of the model in the order of SQLite's BINARY collation
Collation ==
    << "Allegro", "Instagram", "LED clock", "TikTok", "UnknownPlatform",
       "cable organizer", "desk mat", "desk shelf", "desksetup",
       "desksetupinspo", "gadgetsdesk", "headphone stand", "homeoffice",
       "homeofficeideas", "magnetic phone stand", "monitor light bar",
       "no such product", "nosuchtag", "rgb desk light", "studiosetup",
       "workspaceaesthetic", "workspaceinspo" >>

\* the position of a name in the collation
Rank(s) == CHOOSE i \in 1..Len(Collation) : Collation[i] = s

\* Python truthiness of an Optional[str]: None and "" are falsy
TruthyStr(o) == o /= None /\ Val(o) /= ""

\* FROM social_metrics sm JOIN platforms p ON ... JOIN hashtags h ON ...,
\* with the columns of the SELECT
SocialJoin(sm, pl, ht) ==
    { [date |-> t[1].date, platform |-> t[2].name, hashtag |-> t[3].tag,
       views |-> t[1].views, videos |-> t[1].videos, likes |-> t[1].likes] :
      t \in { u \in sm \X pl \X ht :
                /\ u[1].platform_id = u[2].platform_id
                /\ u[1].hashtag_id = u[3].hashtag_id } }

\* FROM marketplace_metrics mm JOIN products pr ON ...
MarketplaceJoin(mm, pr) ==
    { [date |-> t[1].date, keyword |-> t[2].keyword,
       avg_price |-> t[1].avg_price, offer_count |-> t[1].offer_count,
       sales_proxy |-> t[1].sales_proxy] :
      t \in { u \in mm \X pr : u[1].product_id = u[2].product_id } }

\* date BETWEEN ? AND ?
Between(d, start_date, end_date) == start_date <= d /\ d <= end_date

\* variant: ORDER BY sm.date, p.name, h.tag
SocialBefore_DateAscending(a, b) ==
    \/ a.date < b.date
    \/ /\ a.date = b.date
       /\ \/ Rank(a.platform) < Rank(b.platform)
          \/ /\ a.platform = b.platform
             /\ Rank(a.hashtag) < Rank(b.hashtag)

\* ORDER BY sm.date DESC, p.name, h.tag
SocialBefore(a, b) ==
    \/ a.date > b.date
    \/ /\ a.date = b.date
       /\ \/ Rank(a.platform) < Rank(b.platform)
          \/ /\ a.platform = b.platform
             /\ Rank(a.hashtag) < Rank(b.hashtag)

\* variant: ORDER BY pr.keyword, mm.date DESC
MarketplaceBefore_KeywordFirst(a, b) ==
    \/ Rank(a.keyword) < Rank(b.keyword)
    \/ a.keyword = b.keyword /\ a.date > b.date

\* ORDER BY mm.date DESC, pr.keyword
MarketplaceBefore(a, b) ==
    \/ a.date > b.date
    \/ a.date = b.date /\ Rank(a.keyword) < Rank(b.keyword)

\* the rows of S as the list ORDER BY gives
RECURSIVE OrderSocial(_)
OrderSocial(S) ==
    IF S = {} THEN <<>>
    ELSE LET first == CHOOSE r \in S : \A o \in S \ {r} : ~SocialBefore(o, r)
         IN <<first>> \o OrderSocial(S \ {first})

RECURSIVE OrderMarketplace(_)
OrderMarketplace(S) ==
    IF S = {} THEN <<>>
    ELSE LET first == CHOOSE r \in S : \A o \in S \ {r} : ~MarketplaceBefore(o, r)
         IN <<first>> \o OrderMarketplace(S \ {first})

\* the statement of get_social_metrics
SelectSocial(sm, pl, ht, start_date, end_date, platform_name) ==
    OrderSocial({ r \in SocialJoin(sm, pl, ht) :
                    /\ Between(r.date, start_date, end_date)
                    /\ (TruthyStr(platform_name)
                          => r.platform = Val(platform_name)) })

\* the statement of get_marketplace_metrics
SelectMarketplace(mm, pr, start_date, end_date, keyword) ==
    OrderMarketplace({ r \in MarketplaceJoin(mm, pr) :
                         /\ Between(r.date, start_date, end_date)
                         /\ (TruthyStr(keyword) => r.keyword = Val(keyword)) })

\* the platforms, hashtags and keywords of the rows and filters of a query
QueryPlatforms == {"TikTok", "Instagram"}
QueryHashtags == {"desksetup", "homeoffice"}
QueryKeywords == {"LED clock", "desk mat"}
SocialFilters == {None} \cup {Some(n) : n \in QueryPlatforms \cup {"UnknownPlatform"}}
MarketplaceFilters == {None} \cup {Some(k) : k \in QueryKeywords \cup {"no such product"}}

get_social_metrics ==
    /\ query = None
    /\ \E start_date \in Dates, end_date \in Dates, platform_name \in SocialFilters :
          /\ query' = Some([op |-> "social", start_date |-> start_date,
                            end_date |-> end_date, name |-> platform_name])
          /\ fetched' = Some(SelectSocial(social_metrics, platforms, hashtags,
                                          start_date, end_date, platform_name))
    /\ UNCHANGED <<store, clock, write_lock, pc, args, locals, conn, result,
                   fault, calls, run, history, overlapped, html, data, text,
                   parsed,
                   batch>>

get_marketplace_metrics ==
    /\ query = None
    /\ \E start_date \in Dates, end_date \in Dates, keyword \in MarketplaceFilters :
          /\ query' = Some([op |-> "marketplace", start_date |-> start_date,
                            end_date |-> end_date, name |-> keyword])
          /\ fetched' = Some(SelectMarketplace(marketplace_metrics, products,
                                               start_date, end_date, keyword))
    /\ UNCHANGED <<store, clock, write_lock, pc, args, locals, conn, result,
                   fault, calls, run, history, overlapped, html, data, text,
                   parsed,
                   batch>>

\* the fact tables after upserts on the social keys K and the marketplace
\* keys M of a seeded database
RECURSIVE AfterUpserts(_, _, _)
AfterUpserts(st, K, M) ==
    IF K /= {}
    THEN LET k == CHOOSE k \in K : TRUE
             pid == Val(get_platform_id(SeededPlatforms, k[2]))
             hid == Val(get_hashtag_id(SeededHashtags.tbl, k[3]))
             u == UpsertSocial([tbl |-> st.social_metrics,
                                seq |-> st.sequence.social_metrics],
                               k[1], pid, hid, Some(1), Some(1), None, st.clock)
         IN AfterUpserts(
               [st EXCEPT !.social_metrics = u.tbl,
                          !.sequence.social_metrics = u.seq,
                          !.clock = @ + 1,
                          !.written_social =
                              RecordSocial(@, <<k[1], pid, hid>>,
                                           <<Some(1), Some(1), None>>)],
               K \ {k}, M)
    ELSE IF M /= {}
    THEN LET k == CHOOSE k \in M : TRUE
             prid == Val(get_product_id(SeededProducts.tbl, k[2]))
             u == UpsertMarketplace([tbl |-> st.marketplace_metrics,
                                     seq |-> st.sequence.marketplace_metrics],
                                    k[1], prid, Some(1), Some(1), None, st.clock)
         IN AfterUpserts(
               [st EXCEPT !.marketplace_metrics = u.tbl,
                          !.sequence.marketplace_metrics = u.seq,
                          !.clock = @ + 1,
                          !.written_marketplace =
                              RecordMarketplace(@, <<k[1], prid>>,
                                                <<Some(1), Some(1), None>>)],
               K, M \ {k})
    ELSE st

\* a query is made on a seeded database that holds social rows or marketplace
\* rows of earlier upserts
InitQuery ==
    /\ InitProcs
    /\ platforms = SeededPlatforms
    /\ hashtags = SeededHashtags.tbl
    /\ products = SeededProducts.tbl
    /\ \E K \in SUBSET (Dates \X QueryPlatforms \X QueryHashtags),
          M \in SUBSET (Dates \X QueryKeywords) :
          /\ K = {} \/ M = {}
          /\ LET st == AfterUpserts(
                          [social_metrics |-> {}, marketplace_metrics |-> {},
                           sequence |-> [hashtags |-> SeededHashtags.seq,
                                         products |-> SeededProducts.seq,
                                         social_metrics |-> 0,
                                         marketplace_metrics |-> 0],
                           clock |-> 1, written_social |-> {},
                           written_marketplace |-> {}], K, M)
             IN /\ social_metrics = st.social_metrics
                /\ marketplace_metrics = st.marketplace_metrics
                /\ sequence = st.sequence
                /\ clock = st.clock
                /\ written_social = st.written_social
                /\ written_marketplace = st.written_marketplace

\* ------------------------------------------------------------ specifications
\* the steps of an upsert call of process p
UpsertStep(p) ==
    \/ GetPlatformId(p)
    \/ GetHashtagId(p)
    \/ GetProductId(p)
    \/ LookupFault(p)
    \/ RejectUnresolved(p)
    \/ Execute(p)
    \/ ExecuteFault(p)
    \/ Commit(p)
    \/ CommitFault(p)

\* one caller making upsert calls, one at a time
Next ==
    \/ initialize_database
    \/ CallInsertSocial(1, PlatformNames, HashtagNames)
    \/ CallInsertMarketplace(1, KeywordNames)
    \/ UpsertStep(1)

Spec == Init /\ [][Next]_vars

\* one caller making collection runs, one at a time
NextRun ==
    \/ initialize_database
    \/ StartRun(1)
    \/ ScrapeEntity(1)
    \/ UpsertStep(1)
    \/ ReturnResults(1)

SpecRun == InitRun /\ [][NextRun]_vars

\* one daily batch: run_all is sequential code, every step of which is taken
NextBatch ==
    \/ run_all
    \/ run_collector(1)
    \/ ScrapeEntity(1)
    \/ UpsertStep(1)
    \/ ReturnResults(1)

SpecBatch == InitRun /\ [][NextBatch]_vars /\ WF_vars(NextBatch)

\* two callers whose upsert calls interleave
NextConc ==
    \E p \in Procs :
       \/ CallInsertSocial(p, SeededPlatformNames, SeededHashtagNames)
       \/ CallInsertMarketplace(p, SeededKeywordNames)
       \/ GetPlatformId(p)
       \/ GetHashtagId(p)
       \/ GetProductId(p)
       \/ LookupFault(p)
       \/ Execute(p)
       \/ ExecuteFault(p)
       \/ Commit(p)
       \/ CommitFault(p)

SpecConc == InitSeeded /\ [][NextConc]_vars

\* one query on a database at rest
NextQuery ==
    \/ get_social_metrics
    \/ get_marketplace_metrics

SpecQuery == InitQuery /\ [][NextQuery]_vars

\* one call of a normalizer
NextParse ==
    \/ CallParseCount
    \/ CallParsePrice

SpecParse == Init /\ [][NextParse]_vars

\* one call of a hashtag extractor
NextExtract ==
    \/ ExtractTikTok
    \/ ExtractInstagram

SpecExtract == Init /\ [][NextExtract]_vars

\* one call of the marketplace extractor
NextListing ==
    \/ ScrapeKeyword

SpecListing == Init /\ [][NextListing]_vars

\* ------------------------------------------------------------------ helpers
\* the key and the measured fields of every row, without metric_id and scraped_at
SocialValues(tbl) ==
    {[date |-> r.date, platform_id |-> r.platform_id,
      hashtag_id |-> r.hashtag_id, views |-> r.views, videos |-> r.videos,
      likes |-> r.likes] : r \in tbl}

MarketplaceValues(tbl) ==
    {[date |-> r.date, product_id |-> r.product_id, avg_price |-> r.avg_price,
      offer_count |-> r.offer_count, sales_proxy |-> r.sales_proxy] : r \in tbl}

\* the rows of a fact table that hold the key of the call of process p
SocialRowsOf(tbl, p) ==
    {r \in tbl : SocialKey(r) = <<Val(args[p]).date_val, Val(platform_id[p]),
                                  Val(hashtag_id[p])>>}

MarketplaceRowsOf(tbl, p) ==
    {r \in tbl : MarketplaceKey(r) = <<Val(args[p]).date_val, Val(product_id[p])>>}

IsSocialCall(p) == args[p] /= None /\ Val(args[p]).op = "social"
IsMarketplaceCall(p) == args[p] /= None /\ Val(args[p]).op = "marketplace"

\* this step is the return of the call of process p with value v
Returns(p, v) == pc[p] /= "idle" /\ pc'[p] = "idle" /\ result'[p] = v

\* the row r holds exactly the measured fields of the social call a
HoldsSocial(r, a) == r.views = a.views /\ r.videos = a.videos /\ r.likes = a.likes

HoldsMarketplace(r, a) ==
    /\ r.avg_price = a.avg_price
    /\ r.offer_count = a.offer_count
    /\ r.sales_proxy = a.sales_proxy

\* ------------------------------------------------------------------- claims

\* C1: in every reachable state the social fact table holds at most one row
\* per (date, platform id, hashtag id) and the marketplace fact table at most
\* one row per (date, product id), whatever upsert calls succeeded or failed.
C1_UniqueKeys ==
    /\ \A r1, r2 \in social_metrics : SocialKey(r1) = SocialKey(r2) => r1 = r2
    /\ \A r1, r2 \in marketplace_metrics :
          MarketplaceKey(r1) = MarketplaceKey(r2) => r1 = r2

\* a second upsert was committed on a key that held a row, on either date
C1_Witness ==
    /\ \E w \in written_social : w.prev /= None
    /\ Cardinality(social_metrics) = 1

\* C2: the step in which an upsert call returns True leaves exactly one row
\* for the call's key, and each measured field of that row equals the
\* argument of the call, an absent argument included.
C2_FullOverwrite ==
    [][\A p \in Procs :
          Returns(p, "True") =>
             /\ IsSocialCall(p) =>
                   /\ SocialRowsOf(social_metrics', p) /= {}
                   /\ \A r \in SocialRowsOf(social_metrics', p) :
                         HoldsSocial(r, Val(args[p]))
             /\ IsMarketplaceCall(p) =>
                   /\ MarketplaceRowsOf(marketplace_metrics', p) /= {}
                   /\ \A r \in MarketplaceRowsOf(marketplace_metrics', p) :
                         HoldsMarketplace(r, Val(args[p]))]_vars

\* a committed upsert with views absent replaced a row whose views was present
C2_Witness ==
    /\ result[1] = "True"
    /\ \E w \in written_social :
          /\ w.prev /= None
          /\ Val(w.prev)[1] /= None
          /\ w.views = None
          /\ \E r \in social_metrics :
                /\ SocialKey(r) = <<w.date, w.platform_id, w.hashtag_id>>
                /\ r.views = None

\* C3: an upsert that returns True on a key whose row already holds the same
\* measured values leaves the rows and their measured values as they were
\* (only scraped_at may differ); one with other values leaves one row for
\* the key, holding the new values only.
C3_Idempotent ==
    [][\A p \in Procs :
          Returns(p, "True") =>
             /\ IsSocialCall(p) =>
                   /\ (\E r \in SocialRowsOf(social_metrics, p) :
                          HoldsSocial(r, Val(args[p])))
                      => /\ SocialValues(social_metrics') = SocialValues(social_metrics)
                         /\ Cardinality(social_metrics') = Cardinality(social_metrics)
                   /\ Cardinality(SocialRowsOf(social_metrics', p)) = 1
                   /\ \A r \in SocialRowsOf(social_metrics', p) :
                         HoldsSocial(r, Val(args[p]))
             /\ IsMarketplaceCall(p) =>
                   /\ (\E r \in MarketplaceRowsOf(marketplace_metrics, p) :
                          HoldsMarketplace(r, Val(args[p])))
                      => /\ MarketplaceValues(marketplace_metrics') =
                               MarketplaceValues(marketplace_metrics)
                         /\ Cardinality(marketplace_metrics') =
                               Cardinality(marketplace_metrics)
                   /\ Cardinality(MarketplaceRowsOf(marketplace_metrics', p)) = 1
                   /\ \A r \in MarketplaceRowsOf(marketplace_metrics', p) :
                         HoldsMarketplace(r, Val(args[p]))]_vars

\* the last committed upsert of a key repeated the values of the one before
C3_Witness ==
    /\ result[1] = "True"
    /\ \E w \in written_social :
          /\ w.prev = Some(<<w.views, w.videos, w.likes>>)
          /\ w.views /= None

\* the arguments of the call of p name no row of a dimension table
NameMissing(p) ==
    LET a == Val(args[p]) IN
    IF a.op = "social"
    THEN \/ ~ \E r \in platforms : r.name = a.platform_name
         \/ ~ \E r \in hashtags : r.tag = a.hashtag
    ELSE ~ \E r \in products : r.keyword = a.keyword

\* C4: a call whose platform name, hashtag or keyword has no dimension row
\* changes no table in any of its steps, and when it has made its lookups
\* it returns False.
C4_UnresolvedRejected ==
    [][\A p \in Procs :
          (pc[p] /= "idle" /\ pc'[p] /= pc[p] /\ NameMissing(p)) =>
             /\ UNCHANGED store
             /\ result'[p] /= "True"
             /\ pc[p] = "check" => Returns(p, "False")]_vars

\* on a seeded database that holds fact rows, a call was rejected
C4_Witness ==
    /\ result[1] = "False"
    /\ fault[1] = "none"
    /\ platforms /= {}
    /\ social_metrics /= {}

\* C5: in every reachable state each social metric row's platform_id and
\* hashtag_id, and each marketplace metric row's product_id, is the id of a
\* row of the dimension table.
C5_ReferentialIntegrity ==
    /\ \A r \in social_metrics :
          /\ \E d \in platforms : d.platform_id = r.platform_id
          /\ \E d \in hashtags : d.hashtag_id = r.hashtag_id
    /\ \A r \in marketplace_metrics :
          \E d \in products : d.product_id = r.product_id

\* both fact tables hold a row
C5_Witness == social_metrics /= {} /\ marketplace_metrics /= {}

\* C6: a storage fault during an upsert reaches the caller as a storage-fault
\* error, distinct from the False returned for an unresolved dimension, and
\* nothing but a storage fault reaches the caller as an error.
C6_FaultSurfaced ==
    \A p \in Procs :
       /\ fault[p] /= "none" => result[p] = "StorageFault"
       /\ result[p] = "StorageFault" => fault[p] /= "none"

\* the committed fact tables, in the next state
CommittedNext ==
    [social_metrics |-> social_metrics',
     marketplace_metrics |-> marketplace_metrics',
     sequence |-> sequence']

\* C7: the fact tables change only in the step in which an upsert call
\* returns True, and then they become the tables its statement produced,
\* whole; a call that fails changes nothing in any of its steps.
C7_Transactional ==
    [][/\ \A p \in Procs :
             (pc[p] /= "idle" /\ pc'[p] = "idle" /\ result'[p] /= "True")
                => UNCHANGED <<social_metrics, marketplace_metrics, sequence>>
       /\ (facts' /= facts) =>
             \E p \in Procs :
                /\ pc[p] = "commit"
                /\ Returns(p, "True")
                /\ CommittedNext = Val(conn[p])]_vars

\* a call failed at its commit on a table that already held a row, and the
\* row count is the one before the call
C7_Witness ==
    /\ result[1] = "False"
    /\ fault[1] = "commit"
    /\ Cardinality(social_metrics) = 1
    /\ sequence.social_metrics = 1
    /\ SocialValues(social_metrics) = SocialValues(written_social)

\* C8: under every interleaving of the upsert calls of two processes, each
\* key that a committed upsert wrote has exactly one row, and the measured
\* fields of that row are, all of them, those of the upsert committed last
\* on the key; no other row exists.
C8_NoLostUpdate ==
    /\ \A r1, r2 \in social_metrics : SocialKey(r1) = SocialKey(r2) => r1 = r2
    /\ \A r1, r2 \in marketplace_metrics :
          MarketplaceKey(r1) = MarketplaceKey(r2) => r1 = r2
    /\ SocialValues(social_metrics) = SocialValues(written_social)
    /\ MarketplaceValues(marketplace_metrics) = MarketplaceValues(written_marketplace)

\* two calls that overlapped in time both returned True, on one key and with
\* different values
C8_Witness ==
    /\ calls = 2
    /\ \A p \in Procs : pc[p] = "idle" /\ result[p] = "True" /\ overlapped[p]
    /\ \E w \in written_social :
          /\ w.prev /= None
          /\ Val(w.prev)[1] /= w.views
          /\ Val(w.prev)[2] /= w.videos

\* C9: a step never removes a key from a fact table, and a key is added only
\* in the step in which an upsert call on that key returns True.
C9_NoDelete ==
    [][/\ \A r \in social_metrics :
             \E r2 \in social_metrics' : SocialKey(r2) = SocialKey(r)
       /\ \A r \in marketplace_metrics :
             \E r2 \in marketplace_metrics' : MarketplaceKey(r2) = MarketplaceKey(r)
       /\ \A r2 \in social_metrics' :
             (~ \E r \in social_metrics : SocialKey(r) = SocialKey(r2)) =>
                \E p \in Procs : /\ Returns(p, "True")
                                 /\ IsSocialCall(p)
                                 /\ r2 \in SocialRowsOf(social_metrics', p)
       /\ \A r2 \in marketplace_metrics' :
             (~ \E r \in marketplace_metrics :
                   MarketplaceKey(r) = MarketplaceKey(r2)) =>
                \E p \in Procs : /\ Returns(p, "True")
                                 /\ IsMarketplaceCall(p)
                                 /\ r2 \in MarketplaceRowsOf(marketplace_metrics', p)
      ]_vars

\* a run has returned after it overwrote the row of one key and created the
\* row of another
C9_Witness ==
    /\ run_status[1] = "returned"
    /\ \E w \in written_social : w.prev /= None
    /\ Cardinality(social_metrics) = 2

\* the last entry of a sequence
Last(q) == q[Len(q)]

\* C10: the step of a run in which the extraction of an entity yields None
\* changes no table, starts no upsert call and goes on to the next entity; a
\* run starts an upsert call only for a measurement, and leaves its loop by
\* an exception only when sqlite3 raised in a lookup.
C10_SkipOnNone ==
    [][\A p \in Procs :
          /\ (/\ run_status[p] = "running"
              /\ Len(run_results'[p]) = Len(run_results[p]) + 1
              /\ Last(run_results'[p]) = None)
             => /\ UNCHANGED store
                /\ pc'[p] = "idle"
                /\ run_status'[p] = "running"
                /\ run_idx'[p] = run_idx[p] + 1
          /\ (run_status[p] = "running" /\ pc[p] = "idle" /\ pc'[p] /= "idle")
             => Last(run_results'[p]) /= None
          /\ (run_status[p] = "running" /\ run_status'[p] = "raised")
             => (pc[p] /= "idle" /\ fault'[p] = "lookup")]_vars

\* a saving TikTok run on date 1 got no measurement for its first entity,
\* whose earlier row is intact, and has saved a measurement for the second
C10_Witness ==
    /\ run_status[1] = "running" /\ run_kind[1] = "TikTok" /\ run_save[1]
    /\ run_today[1] = 1
    /\ Len(run_results[1]) = 2
    /\ run_results[1][1] = None
    /\ run_results[1][2] /= None
    /\ pc[1] = "idle" /\ result[1] = "True"
    /\ \E r \in social_metrics :
          /\ r.date = 1
          /\ Some(r.platform_id) = get_platform_id(platforms, "TikTok")
          /\ Some(r.hashtag_id) = get_hashtag_id(hashtags, TIKTOK_HASHTAGS[1])
          /\ r.views /= None /\ r.videos /= None
          /\ r.scraped_at = 1
    /\ \E r \in social_metrics :
          /\ r.date = 1
          /\ Some(r.hashtag_id) = get_hashtag_id(hashtags, TIKTOK_HASHTAGS[2])

\* the social rows a query is to return: the stored rows with the names of
\* their platform and hashtag, in the date range, of the platform when given
ExpectedSocial(q) ==
    { [date |-> r.date,
       platform |-> (CHOOSE p \in platforms : p.platform_id = r.platform_id).name,
       hashtag |-> (CHOOSE h \in hashtags : h.hashtag_id = r.hashtag_id).tag,
       views |-> r.views, videos |-> r.videos, likes |-> r.likes] :
      r \in { x \in social_metrics :
                /\ q.start_date <= x.date /\ x.date <= q.end_date
                /\ q.name /= None =>
                     get_platform_id(platforms, Val(q.name)) = Some(x.platform_id) } }

ExpectedMarketplace(q) ==
    { [date |-> r.date,
       keyword |-> (CHOOSE p \in products : p.product_id = r.product_id).keyword,
       avg_price |-> r.avg_price, offer_count |-> r.offer_count,
       sales_proxy |-> r.sales_proxy] :
      r \in { x \in marketplace_metrics :
                /\ q.start_date <= x.date /\ x.date <= q.end_date
                /\ q.name /= None =>
                     get_product_id(products, Val(q.name)) = Some(x.product_id) } }

Strategies(kind, page) ==
    IF kind = "TikTok"
    THEN << TikTokStructured(page), TikTokFreeText(page) >>
    ELSE << InstagramStructured(page), InstagramMetadata(page),
            InstagramFreeText(page) >>

\* the result of the first strategy that yields one, None when none does
FirstYield(outs) ==
    IF \E i \in 1..Len(outs) : outs[i].out = "yield"
    THEN outs[CHOOSE i \in 1..Len(outs) :
                 /\ outs[i].out = "yield"
                 /\ \A j \in 1..(i - 1) : outs[j].out /= "yield"].value
    ELSE None

\* C13: a hashtag extractor returns the result of the first strategy, in the
\* order structured data, metadata, free text, that yields a result for the
\* page (for a page only the free-text strategy matches, the free-text value).
C13_FirstStrategyWins ==
    (html /= None /\ data /= None) =>
       Val(data) = FirstYield(Strategies(Val(html).kind, Val(html).page))

\* the value at the end of a path of member names (0: the first item of an
\* array) in a loaded value, None when a segment is missing
RECURSIVE Navigate(_, _)
Navigate(j, path) ==
    IF path = <<>> THEN Some(j)
    ELSE IF Head(path) = "0"
    THEN IF j.t = "array" /\ j.a /= <<>> THEN Navigate(j.a[1], Tail(path))
         ELSE None
    ELSE IF j.t = "object" /\ Head(path) \in DOMAIN j.o
    THEN Navigate(j.o[Head(path)], Tail(path))
    ELSE None

\* the structured-data strategy fails on the page: no anchor, a block that
\* does not parse, or a segment of the navigation path missing
StructuredFails(kind, page) ==
    IF kind = "TikTok"
    THEN \/ page.script = None
         \/ Val(page.script) = Malformed
         \/ Navigate(Val(page.script),
                     << "__DEFAULT_SCOPE__", "webapp.challenge-detail",
                        "challengeInfo", "stats" >>) = None
    ELSE \/ page.shared = None
         \/ Val(page.shared) = Malformed
         \/ Navigate(Val(page.shared),
                     << "entry_data", "TagPage", "0", "graphql", "hashtag",
                        "edge_hashtag_to_media", "count" >>) = None

\* C14: when the structured-data strategy fails on a page (anchor absent,
\* block not parsable, or path segment missing) and a later strategy yields a
\* value, the extractor returns that value, not None and not zeros.
C14_StructuredFailureFallsThrough ==
    (html /= None /\ data /= None) =>
       LET kind == Val(html).kind
           page == Val(html).page
           later == Tail(Strategies(kind, page))
       IN (StructuredFails(kind, page) /\ FirstYield(later) /= None)
             => Val(data) = FirstYield(later)

\* a stored optional number is absent or not negative
NonNegative(o) == o = None \/ Val(o) >= 0

\* C15: every optional numeric field of every stored measurement row is
\* absent or a non-negative number, whatever page content the extractors of
\* a collection run received.
C15_StoredFieldsNonNegative ==
    /\ \A r \in social_metrics :
          NonNegative(r.views) /\ NonNegative(r.videos) /\ NonNegative(r.likes)
    /\ \A r \in marketplace_metrics :
          /\ NonNegative(r.avg_price)
          /\ NonNegative(r.offer_count)
          /\ NonNegative(r.sales_proxy)

\* the smaller of two numbers
Min(a, b) == IF a < b THEN a ELSE b

\* the number of fragments the extractor samples from a page
SampleSize(page) ==
    IF page.articles /= <<>> THEN Min(Len(page.articles), ALLEGRO_TOP_N_LISTINGS)
    ELSE Min(Len(page.offers), ALLEGRO_TOP_N_LISTINGS)

\* the fragments the extractor samples from a page
Sample(page) ==
    IF page.articles /= <<>> THEN SubSeq(page.articles, 1, SampleSize(page))
    ELSE SubSeq(page.offers, 1, SampleSize(page))

\* the marketplace extractor was called on a page and produced a measurement
Measured ==
    /\ html /= None /\ Val(html).kind = "Allegro" /\ Val(html).page /= None
    /\ data /= None /\ Val(data) /= None

\* C16: a measurement of scrape_product_keyword has offer_count equal to the
\* number of sampled fragments, at most top-N, whatever number of them gave a
\* price or a sold count; avg_price is absent when no sampled fragment gives
\* a parseable price.
C16_OfferCountIsSampleSize ==
    Measured =>
       LET page == Val(Val(html).page)
           m == Val(Val(data))
       IN /\ m.offer_count = Some(SampleSize(page))
          /\ SampleSize(page) <= ALLEGRO_TOP_N_LISTINGS
          /\ (\A i \in 1..SampleSize(page) : PriceOf(Sample(page)[i]) = None)
                => m.avg_price = None

\* a page of more than top-N fragments without price and sold count gave a
\* measurement of top-N offers without an average price
C16_Witness ==
    /\ Measured
    /\ Len(Val(Val(html).page).articles) > ALLEGRO_TOP_N_LISTINGS
    /\ \A i \in 1..ALLEGRO_TOP_N_LISTINGS :
          /\ Val(Val(html).page).articles[i].price_text = None
          /\ Val(Val(html).page).articles[i].sold = NoPhrase
    /\ Val(Val(data)).offer_count = Some(ALLEGRO_TOP_N_LISTINGS)
    /\ Val(Val(data)).avg_price = None

\* every price parsed from the fragments, a parsed 0 included
RECURSIVE ParsedPrices(_)
ParsedPrices(listings) ==
    IF listings = <<>> THEN <<>>
    ELSE LET price == PriceOf(Head(listings)) IN
         (IF price /= None THEN <<Val(price)>> ELSE <<>>)
            \o ParsedPrices(Tail(listings))

\* every sold count parsed from the fragments, a parsed 0 included
RECURSIVE ParsedSales(_)
ParsedSales(listings) ==
    IF listings = <<>> THEN <<>>
    ELSE LET sales_proxy == extract_sales_proxy(Head(listings).sold) IN
         (IF sales_proxy /= None THEN <<Val(sales_proxy)>> ELSE <<>>)
            \o ParsedSales(Tail(listings))

\* the mean of the decimals ds in hundredths
MeanHundredths(ds) ==
    RoundHalfEven(SumUnits(ds, FractionDigits(ds)) * 100,
                  Len(ds) * Pow10(FractionDigits(ds)))

\* C17: in a measurement, avg_price is the mean of all parsed prices of the
\* sampled fragments and sales_proxy the sum of all parsed sold counts; each
\* is absent exactly when no fragment gave a parsed value, a parsed 0 counting
\* as parsed.
C17_MeanAndSumOfParsed ==
    Measured =>
       LET listings == Sample(Val(Val(html).page))
           m == Val(Val(data))
       IN /\ m.avg_price =
                IF ParsedPrices(listings) = <<>> THEN None
                ELSE Some(MeanHundredths(ParsedPrices(listings)))
          /\ m.sales_proxy =
                IF ParsedSales(listings) = <<>> THEN None
                ELSE Some(sum(ParsedSales(listings)))

\* the response is a page without listing fragments, by either selector
ZeroFragments(response) ==
    /\ response /= None
    /\ Val(response).articles = <<>>
    /\ Val(response).offers = <<>>

\* a measurement of a marketplace run counts at least one offer
CountsAnOffer(offer_count) == offer_count /= None /\ Val(offer_count) >= 1

\* C18: the step of a marketplace run that gets a page of zero listing
\* fragments produces no measurement, starts no upsert call and changes no
\* table; every measurement a marketplace run has produced, and every stored
\* marketplace row, has offer_count >= 1.
C18_EmptySampleNoMeasurement ==
    /\ [](/\ \A p \in Procs :
                run_kind[p] = "Allegro" =>
                   \A i \in 1..Len(run_results[p]) :
                      run_results[p][i] /= None =>
                         CountsAnOffer(Val(run_results[p][i]).offer_count)
          /\ \A r \in marketplace_metrics : CountsAnOffer(r.offer_count))
    /\ [][\A p \in Procs :
             (/\ run_status[p] = "running" /\ run_kind[p] = "Allegro"
              /\ Len(run_results'[p]) = Len(run_results[p]) + 1
              /\ html' /= None /\ ZeroFragments(Val(html').page))
             => /\ Last(run_results'[p]) = None
                /\ pc'[p] = "idle"
                /\ UNCHANGED store]_vars

\* a saving marketplace run stored the measurement of its first keyword and
\* then got a page of zero fragments for the second: nothing more was
\* produced or stored
C18_Witness ==
    /\ run_status[1] = "running" /\ run_kind[1] = "Allegro" /\ run_save[1]
    /\ html /= None /\ ZeroFragments(Val(html).page)
    /\ Len(run_results[1]) = 2
    /\ run_results[1][1] /= None
    /\ run_results[1][2] = None
    /\ pc[1] = "idle"
    /\ Cardinality(marketplace_metrics) = 1
    /\ \A r \in marketplace_metrics :
          r.offer_count = Val(run_results[1][1]).offer_count

\* C19: when processing a sampled fragment fails, the other fragments are
\* still processed and a measurement is produced: offer_count counts every
\* sampled fragment and the aggregates come from the fragments that did not
\* fail.
C19_FragmentFailureIsolated ==
    (/\ html /= None /\ Val(html).kind = "Allegro" /\ Val(html).page /= None
     /\ data /= None
     /\ \E i \in 1..SampleSize(Val(Val(html).page)) :
           Sample(Val(Val(html).page))[i].fails)
    => LET listings == Sample(Val(Val(html).page))
           sound == SelectSeq(listings, LAMBDA l : ~l.fails)
       IN Val(data) = Some([Aggregate(sound) EXCEPT
                               !.offer_count = Some(Len(listings))])

\* C20: no call of a normalizer raises: _parse_price and _parse_count each
\* return a number or no value for every text.
C20_NormalizersTotal ==
    parsed /= None => ~Val(parsed).raised

\* the power of ten a suffix stands for
SuffixPower(x) ==
    IF x = <<>> THEN 0
    ELSE IF upper(x) = <<"K">> THEN 3
    ELSE IF upper(x) = <<"M">> THEN 6
    ELSE 9

\* the decimal x times 10^k, truncated to an integer, in exact arithmetic
Truncated(x, k) ==
    IF x.e + k >= 0 THEN BigMulPow(Big(x.m), 10, x.e + k)
    ELSE BigDiv(Big(x.m), Pow10(0 - (x.e + k)))

\* C21: for a count text made of a decimal mantissa and an optional suffix K,
\* M or B in either case, _parse_count returns the mantissa times 1000,
\* 1000000 or 1000000000 (1 without suffix), truncated to an integer.
C21_MagnitudeSuffix ==
    (text /= None /\ Val(text).fn = "_parse_count")
    => \A m \in Mantissas, x \in Suffixes :
          Val(text).str = m \o x
          => Val(parsed) =
                Returned(Some([neg |-> FALSE,
                               mag |-> Truncated(Val(float(m)), SuffixPower(x))]))

\* the order in which run_all is to call the collectors
BatchOrder == <<"TikTok", "Instagram", "Allegro">>

\* the scrape call of the batch's current collector returns or raises in
\* this step
RunEnds ==
    stage \in Collectors /\ run_status[1] = "running" /\ run_status'[1] /= "running"

\* C22: run_all calls the collectors in the order TikTok, Instagram, Allegro
\* and calls each of them whatever the earlier ones did; a collector counts
\* as successful exactly when its scrape call returned with a measurement for
\* at least one entity, and one that raised is appended to the errors list
\* and counts as failed; run_all terminates, with overall_success true
\* exactly when the three collectors were successful.
C22_BatchRunsAll ==
    /\ [](/\ Len(started) <= Len(BatchOrder)
          /\ started = SubSeq(BatchOrder, 1, Len(started))
          /\ stage = "done" =>
                /\ started = BatchOrder
                /\ batch_results.overall_success =
                      Some(\A k \in Collectors : ok[k] = Some(TRUE)))
    /\ [][RunEnds =>
             /\ ok'[stage] =
                   Some(/\ run_status'[1] = "returned"
                        /\ \E i \in 1..Len(run_results[1]) :
                              run_results[1][i] /= None)
             /\ \A k \in Collectors \ {stage} : ok'[k] = ok[k]
             /\ batch_results'.errors =
                   IF run_status'[1] = "raised"
                   THEN Append(batch_results.errors, stage)
                   ELSE batch_results.errors]_vars
    /\ (stage = "TikTok") ~> (stage = "done")

\* a batch is done in which the TikTok collector raised after it had
\* extracted a measurement, and the Instagram and Allegro collectors were
\* run and were successful: overall_success is false
C22_Witness ==
    /\ stage = "done"
    /\ started = BatchOrder
    /\ batch_results.errors = <<"TikTok">>
    /\ ok["TikTok"] = Some(FALSE)
    /\ ok["Instagram"] = Some(TRUE)
    /\ ok["Allegro"] = Some(TRUE)
    /\ batch_results.overall_success = Some(FALSE)

====
